---------------------------- MODULE Spec2Model ----------------------------
(***************************************************************************)
(* A model of astro-coda-loader: the load operation of codaLoader, the     *)
(* lookup expansion engine (expandLookups / expandRowLookups /             *)
(* expandSingleReference), the paginated table fetcher (fetchTableData)    *)
(* and the value pipeline applied to every stored row.                     *)
(*                                                                         *)
(* The recursion of expandRowLookups <-> expandSingleReference is kept as  *)
(* an explicit call stack of expandRowLookups frames; an action runs the   *)
(* synchronous code between two network awaits of the JavaScript source.   *)
(***************************************************************************)
EXTENDS Integers, Sequences, FiniteSets, TLC

\* ------------------------------------------------------------------ bounds

\* largest maxLookupDepth option tried
MaxDepth == 3
\* largest number of query strings a load runs (QueryFilter.values length)
MaxQueries == 2
\* largest number of network requests that fail during one load
MaxFail == 1
\* how many times in a row normalizeEmptyToObject is applied to a mapping
MaxPasses == 2

\* ------------------------------------------------------------- raw values
\* Every RawValue is a record with a kind field, so that values of different
\* JavaScript types can be compared.

Undefined == [kind |-> "undefined"]
Null == [kind |-> "null"]
\* a string is the sequence of its characters
Str(s) == [kind |-> "str", s |-> s]
Num(n) == [kind |-> "num", n |-> n]
Bool(b) == [kind |-> "bool", b |-> b]
\* an array
List(items) == [kind |-> "list", items |-> items]
\* a values object: cols[i] is the value of the i-th key in key order
VMap(cols) == [kind |-> "map", cols |-> cols]
\* a CodaRowReference (@type StructuredValue, additionalType row)
Ref(t, r) == [kind |-> "ref", tableId |-> t, rowId |-> r]
\* a CodaWebPage (@type WebPage) with its url
WebPage(url) == [kind |-> "webpage", url |-> url]
\* a CodaPerson (@type Person) with its name
Person(name) == [kind |-> "person", name |-> name]
\* a CodaImage (@type ImageObject)
Image == [kind |-> "image"]
\* any other object
Object == [kind |-> "object"]
\* a CodaRow; the metadata fields other than id are carried along untouched
Row(id, values) == [id |-> id, values |-> values]

\* the empty string, what Coda returns for an empty cell
Empty == Str(<< >>)

\* ------------------------------------------------------------ the server
\* The documents the source API serves.  The primary table is t1 with rows
\* a1, a2; the other table is t2 with rows b1, b2.  Row x is referenced but is
\* in no table.

PrimaryTable == "t1"
TableIds == {"t1", "t2"}
RowIds == {"a1", "a2", "b1", "b2"}

\* what each row may hold in its two columns; Undefined stands for a row the
\* API delivered without a values object
A1Values ==
  { VMap(<<c1, c2>>) :
      c1 \in {Empty, Ref("t2", "b1"), Ref("t1", "a1"), Ref("t2", "x")},
      c2 \in {List(<< >>), List(<<Ref("t2", "b1"), Ref("t2", "b2")>>),
              List(<<Num(7), Ref("t2", "b2")>>)} }

A2Values ==
  { VMap(<<c1, List(<< >>)>>) : c1 \in {Empty, Ref("t2", "b1"), Ref("t2", "b2")} }
    \cup {Undefined}

B1Values ==
  { VMap(<<c1, List(<< >>)>>) : c1 \in {Ref("t1", "a1"), Ref("t2", "b2"), Ref("t2", "b1")} }
    \cup {Undefined}

B2Values ==
  { VMap(<<c1, List(<< >>)>>) : c1 \in {Empty, Ref("t1", "a1")} }

Worlds ==
  { [r \in RowIds |->
       Row(r, CASE r = "a1" -> va1 [] r = "a2" -> va2 [] r = "b1" -> vb1 [] OTHER -> vb2)] :
      va1 \in A1Values, va2 \in A2Values, vb1 \in B1Values, vb2 \in B2Values }


\* rows per page of the rows endpoint (scaled down from the source's 500)
\* table t1 is served in two pages, table t2 in one
\* a world may hold, under b1old, a copy of row b1 as it was before an edit:
\* table t2 is then served in two pages, the old copy on the first and the
\* row itself on the second
ServerPages(w, t) ==
  IF t = "t1" THEN << <<w["a1"]>>, <<w["a2"]>> >>
  ELSE IF "b1old" \in DOMAIN w THEN << <<w["b1old"], w["b2"]>>, <<w["b1"]>> >>
  ELSE << <<w["b1"], w["b2"]>> >>

\* data.items of the primary rows request for the q-th query string
QueryResult(w, q) == IF q = 1 THEN <<w["a1"], w["a2"]>> ELSE <<w["a2"]>>

\* format.type of the primary table's two columns, as the columns endpoint
\* reports them: both are lookup columns
ServerColumnTypes == <<"lookup", "lookup">>

\* --------------------------------------------------------- pure functions

\* isRawRowReference: an object tagged StructuredValue / row, expanded or not
IsRawRowReference(v) == v.kind = "ref"

\* the key tableId:rowId of a reference; table and row ids hold no colon,
\* so the pair is as injective as the concatenation
RefKey(ref) == <<ref.tableId, ref.rowId>>

\* an ExpandedCodaRowReference: a reference carrying a values field
IsExpanded(v) == v.kind = "ref" /\ "values" \in DOMAIN v

\* {...reference, values: {id, values}}
ExpandedRef(ref, row) ==
  [kind |-> "ref", tableId |-> ref.tableId, rowId |-> ref.rowId,
   values |-> [id |-> row.id, values |-> row.values]]

\* Map.get(rowId) || null on a rows map
MapGet(m, r) == IF r \in DOMAIN m THEN m[r] ELSE Null

\* the backtick character, as an element of a string
Backtick == "bt"

\* CleanString applied until no wrapper is left
RECURSIVE CleanStringEveryLayer(_)
CleanStringEveryLayer(s) ==
  IF /\ Len(s) >= 6
     /\ \A i \in 1..3 : s[i] = Backtick /\ s[Len(s) - 3 + i] = Backtick
  THEN CleanStringEveryLayer(SubSeq(s, 4, Len(s) - 3))
  ELSE s

\* cleanString: the text between a leading and a trailing triple backtick when
\* the whole string matches the wrapper pattern (dot matches newlines, greedy),
\* else the string itself
CleanString(s) ==
  IF /\ Len(s) >= 6
     /\ \A i \in 1..3 : s[i] = Backtick /\ s[Len(s) - 3 + i] = Backtick
  THEN SubSeq(s, 4, Len(s) - 3)
  ELSE s

\* CleanValue without the recursion into the values of an expanded reference
RECURSIVE CleanValueSkipsRefs(_)
CleanValueSkipsRefs(v) ==
  CASE v.kind \in {"null", "undefined"} -> Null
    [] v.kind = "str" -> Str(CleanString(v.s))
    [] v.kind = "list" ->
         List([i \in 1..Len(v.items) |-> CleanValueSkipsRefs(v.items[i])])
    [] v.kind = "map" -> VMap([i \in 1..Len(v.cols) |-> CleanValueSkipsRefs(v.cols[i])])
    [] v.kind = "webpage" -> WebPage(CleanString(v.url))
    [] v.kind = "person" -> Person(CleanString(v.name))
    [] OTHER -> v

\* cleanValue: recursion over arrays and objects, strings cleaned
RECURSIVE CleanValue(_)
CleanValue(v) ==
  CASE v.kind \in {"null", "undefined"} -> Null
    [] v.kind = "str" -> Str(CleanString(v.s))
    [] v.kind \in {"num", "bool"} -> v
    [] v.kind = "list" -> List([i \in 1..Len(v.items) |-> CleanValue(v.items[i])])
    [] v.kind = "map" -> VMap([i \in 1..Len(v.cols) |-> CleanValue(v.cols[i])])
    [] v.kind = "ref" ->
         IF "values" \in DOMAIN v
         THEN [v EXCEPT !.values = [id |-> v.values.id, values |-> CleanValue(v.values.values)]]
         ELSE v
    [] v.kind = "webpage" -> WebPage(CleanString(v.url))
    [] v.kind = "person" -> Person(CleanString(v.name))
    [] OTHER -> v

\* cleanValues: every entry of a values object cleaned
CleanValues(values) == VMap([i \in 1..Len(values.cols) |-> CleanValue(values.cols[i])])

\* NormalizeCell without the branch for a single row reference
NormalizeCellDropsRef(ct, v) ==
  IF ct = "lookup"
  THEN CASE v.kind = "list" -> v
         [] OTHER -> List(<< >>)
  ELSE v

\* value === null || value === undefined || value === ""
IsEmptyValue(v) == v.kind \in {"null", "undefined"} \/ v = Empty

\* the decimal digits, as characters
Digits == <<"0", "1", "2", "3", "4", "5", "6", "7", "8", "9">>

\* the value of a string of decimal digits
RECURSIVE DigitsValue(_)
DigitsValue(s) ==
  IF s = << >> THEN 0
  ELSE 10 * DigitsValue(SubSeq(s, 1, Len(s) - 1))
       + ((CHOOSE d \in 1..10 : Digits[d] = s[Len(s)]) - 1)

\* the whitespace characters Number() strips from both ends of a string
Whitespace == {" ", "nl"}

\* a string without its leading and trailing whitespace
RECURSIVE Trim(_)
Trim(s) ==
  IF s = << >> THEN s
  ELSE IF s[1] \in Whitespace THEN Trim(SubSeq(s, 2, Len(s)))
  ELSE IF s[Len(s)] \in Whitespace THEN Trim(SubSeq(s, 1, Len(s) - 1))
  ELSE s

\* the number that is not a number; typeof NaN === "number"
NaN == [kind |-> "num", nan |-> TRUE]

\* Number(value) on a string of digits, letters and whitespace: the string
\* is trimmed, the empty string is 0, a digit string is its value, the rest
\* is NaN
ToNumber(s) ==
  IF \A i \in 1..Len(Trim(s)) : \E d \in 1..10 : Digits[d] = Trim(s)[i]
  THEN Num(DigitsValue(Trim(s)))
  ELSE NaN

\* NumberOrZero without the isNaN test
NumberOrNaN(s) == ToNumber(s)

\* "const num = Number(value); isNaN(num) ? 0 : num"
NumberOrZero(s) == IF ToNumber(s) = NaN THEN Num(0) ELSE ToNumber(s)

\* String.prototype.toLowerCase on the letters in use
ToLowerCase(s) ==
  [i \in 1..Len(s) |->
     CASE s[i] = "T" -> "t" [] s[i] = "R" -> "r" [] s[i] = "U" -> "u"
       [] s[i] = "E" -> "e" [] s[i] = "F" -> "f" [] s[i] = "A" -> "a"
       [] s[i] = "L" -> "l" [] s[i] = "S" -> "s" [] OTHER -> s[i]]

\* normalizeEmptyToObject, columnType === "link"
NormalizeLink(v) ==
  CASE IsEmptyValue(v) -> WebPage(<< >>)
    [] v.kind = "str" -> WebPage(v.s)
    [] OTHER -> v

\* normalizeEmptyToObject, columnType "number", "slider" or "currency"
NormalizeNumber(v) ==
  CASE v.kind = "num" -> v
    [] v.kind = "str" -> NumberOrZero(v.s)
    [] OTHER -> Num(0)

\* NormalizeBoolean without toLowerCase
NormalizeBooleanExactCase(v) ==
  CASE v.kind = "bool" -> v
    [] v.kind = "str" ->
         IF v.s = <<"t", "r", "u", "e">> THEN Bool(TRUE)
         ELSE IF v.s = <<"f", "a", "l", "s", "e">> THEN Bool(FALSE)
         ELSE Null
    [] OTHER -> Null

\* normalizeEmptyToObject, columnType "boolean" or "checkbox"
NormalizeBoolean(v) ==
  CASE v.kind = "bool" -> v
    [] v.kind = "str" ->
         IF ToLowerCase(v.s) = <<"t", "r", "u", "e">> THEN Bool(TRUE)
         ELSE IF ToLowerCase(v.s) = <<"f", "a", "l", "s", "e">> THEN Bool(FALSE)
         ELSE Null
    [] OTHER -> Null

\* NormalizePerson without the branch for a non-empty string
NormalizePersonEmptyOnly(v) ==
  CASE IsEmptyValue(v) -> Person(<< >>)
    [] OTHER -> v

\* normalizeEmptyToObject, columnType === "person"
NormalizePerson(v) ==
  CASE IsEmptyValue(v) -> Person(<< >>)
    [] v.kind = "str" -> Person(v.s)
    [] OTHER -> v

\* normalizeEmptyToObject, columnType === "image"
NormalizeImage(v) ==
  CASE v.kind = "list" -> v
    [] IsEmptyValue(v) -> List(<< >>)
    [] v.kind = "image" -> List(<<v>>)
    [] OTHER -> List(<< >>)

\* NormalizeLookup without the test for an array
NormalizeLookupWrapsAll(v) ==
  CASE IsEmptyValue(v) -> List(<< >>)
    [] v.kind \in {"ref", "list"} -> List(<<v>>)
    [] OTHER -> List(<< >>)

\* normalizeEmptyToObject, columnType === "lookup"
NormalizeLookup(v) ==
  CASE v.kind = "list" -> v
    [] IsEmptyValue(v) -> List(<< >>)
    [] v.kind = "ref" -> List(<<v>>)
    [] OTHER -> List(<< >>)

\* a value that converts to true: "value &&"
Truthy(v) ==
  ~(v.kind \in {"null", "undefined"} \/ v = Empty \/ v = Num(0) \/ v = Bool(FALSE) \/ v = NaN)

\* typeof value === 'object', of null as well
TypeofObject(v) ==
  v.kind \in {"null", "list", "map", "ref", "webpage", "person", "image", "object"}

\* ReachesInOperator without the tests in front of the in operator
ReachesInOperatorAlways(v) == TRUE

\* "value && typeof value === 'object' && '@type' in value": the in operator
\* is evaluated for the values that pass the two tests in front of it
ReachesInOperator(v) == Truthy(v) /\ TypeofObject(v)

\* '@type' in value is a TypeError when value is not an object
InOperatorThrows(v) == v.kind \in {"undefined", "null", "str", "num", "bool"}

\* the cell for which normalizeEmptyToObject throws: in the image and lookup
\* branches the in operator is applied to the values that are neither an
\* array nor empty; toLowerCase is applied to strings only
NormalizeThrows(ct, v) ==
  /\ ct \in {"image", "lookup"}
  /\ v.kind # "list"
  /\ ~IsEmptyValue(v)
  /\ ReachesInOperator(v)
  /\ InOperatorThrows(v)

\* what a caller gets in place of a result when a TypeError is thrown
TypeError == [kind |-> "TypeError"]

\* normalizeEmptyToObject for one cell of a column of declared type ct
\* ("" when the column has no known type); a type outside the table leaves
\* the value as it is
NormalizeCell(ct, v) ==
  CASE ct = "link" -> NormalizeLink(v)
    [] ct \in {"number", "slider", "currency"} -> NormalizeNumber(v)
    [] ct \in {"boolean", "checkbox"} -> NormalizeBoolean(v)
    [] ct = "person" -> NormalizePerson(v)
    [] ct = "image" -> NormalizeImage(v)
    [] ct = "lookup" -> NormalizeLookup(v)
    [] OTHER -> v

\* normalizeEmptyToObject(values, columnTypes); columnTypes is a sequence,
\* empty when no column type is known
NormalizeEmptyToObject(values, columnTypes) ==
  VMap([i \in 1..Len(values.cols) |->
          NormalizeCell(IF i \in DOMAIN columnTypes THEN columnTypes[i] ELSE "",
                        values.cols[i])])

\* parseData of the host framework: the validated entry it hands back
ParseData(id, data) == [parsed |-> data]

\* an object or Map with one more entry
Put(m, k, v) == [x \in (DOMAIN m) \cup {k} |-> IF x = k THEN v ELSE m[x]]

\* an object or Map without entries
EmptyMap == [x \in {} |-> Null]

\* ------------------------------------------------------------------ state

VARIABLES
  server,            \* the rows the source API serves (fixed during a load)
  maxLookupDepth,    \* option maxLookupDepth
  nQueries,          \* number of query strings the load runs
  pc,                \* where load is: "init", "columns", "primary", "expand",
                     \*   "store", "done" or "error"
  qi,                \* index of the query being run
  columnTypesCache,  \* column id -> format.type, empty until fetched
  rows,              \* expandLookups: its argument
  ri,                \* expandLookups: index of the row of the for loop
  expandedRows,      \* expandLookups: the result so far
  processedRefs,     \* context.processedRefs
  cache,             \* context.cache: tableId:rowId -> row or null
  tableCache,        \* context.tableCache: tableId -> (rowId -> row)
  requestCount,      \* context.requestCount
  stack,             \* the active expandRowLookups calls, innermost last
  fetching,          \* the fetchTableData call awaiting a page, if any
  processedRows,     \* load: the rows being stored
  si,                \* load: index of the row being stored
  store,             \* the host store: id -> parsed data
  errorMsg,          \* the AstroError raised: "none"; "token", "docId" or
                     \*   "tableIdOrName" (codaLoader); "rows" (the rows request
                     \*   failed, status in the message), "body" (its error body
                     \*   could not be parsed) or "values" (load)
  netLog,            \* per table, the fetchTableData calls made during the load
  sessLog,           \* per table, the fetchTableData calls of this expandLookups call
  failedKeys,        \* the keys whose table fetch failed in this expandLookups call
  failedAt,          \* the places <<row, entry, item>> of the top-level rows whose
                     \*   reference met a failed table fetch (item 0: a single value)
  raised,            \* the indexes of the rows whose expansion raised an error
  failures,          \* network requests that have failed so far
  token,             \* option token, after the environment fallback: present or not
  docId,             \* option docId, likewise
  tableIdOrName,     \* option tableIdOrName, likewise
  cleanStrings,      \* option cleanStrings
  columnsDataCache,  \* the columns response kept by load and schema, or Null
  spc,               \* where schema is: "idle", "columns" or "returned"
  schemaResult,      \* what schema returned: "none", "typed" or "open"
  reqLog,            \* the network requests sent so far, in order
  hookLog,           \* the calls of parseData and store.set so far, in order
  settled,           \* how many of the requests sent were answered or failed
  failedReqs,        \* the network requests that failed
  normValues,        \* normalizeEmptyToObject: the values it is first applied to
  normTypes,         \* normalizeEmptyToObject: the column types
  normOut,           \* the result of the passes so far (normValues before any)
  normPasses,        \* how many times it has been applied
  cleanIn,           \* cleanValues: the values it is first applied to
  cleanOut,          \* the result of the passes so far (cleanIn before any)
  cleanPasses,       \* how many times it has been applied
  zodColumn,         \* codaFormatToZodType: the column it is called for, or Null
  zodType,           \* the Zod type it returned, or Null
  helperColumns,     \* generateColumnHelpers: the columns it is called with
  helperOut,         \* the COLUMNS object it generated, or Null
  other              \* a second invocation of load that is waiting at an await
                     \*   while this one runs: its own variables, or NoLoad

vars ==
  <<server, maxLookupDepth, nQueries, pc, qi, columnTypesCache, rows, ri,
    expandedRows, processedRefs, cache, tableCache, requestCount, stack,
    fetching, processedRows, si, store, errorMsg, netLog, sessLog, failedKeys,
    failedAt, raised, failures, token, docId, tableIdOrName, cleanStrings,
    columnsDataCache, spc, schemaResult, reqLog, hookLog, settled,
    failedReqs, normValues, normTypes, normOut, normPasses, cleanIn, cleanOut,
    cleanPasses, zodColumn, zodType, helperColumns, helperOut, other>>

optionVars ==
  <<server, maxLookupDepth, nQueries, token, docId, tableIdOrName, cleanStrings>>
schemaVars == <<columnsDataCache, spc, schemaResult>>
normVars == <<normValues, normTypes, normOut, normPasses>>
cleanVars == <<cleanIn, cleanOut, cleanPasses>>
zodVars == <<zodColumn, zodType>>
helperVars == <<helperColumns, helperOut>>
\* what a step of a load leaves alone: the functions called by themselves
\* and the load that is waiting
pureVars == <<normVars, cleanVars, zodVars, helperVars, other>>
contextVars == <<processedRefs, cache, tableCache, requestCount>>
loopVars == <<rows, ri, expandedRows>>
storeVars == <<processedRows, si, store>>
obsVars == <<netLog, sessLog, failedKeys, failedAt, raised>>
logVars == <<obsVars, reqLog, hookLog, settled, failedReqs>>

\* a network request: kind is "columns" (load), "schema" (the columns
\* request of schema), "rows" (the primary rows request, arg the index of the
\* query string) or "table" (a page of fetchTableData, arg the page token
\* passed, 0 for none)
Req(kind, t, arg) == [kind |-> kind, table |-> t, arg |-> arg]

\* the for loop of load over queries reaches query q and sends its rows
\* request, or ends
NextQuery(q) ==
  IF q <= nQueries
  THEN /\ pc' = "primary"
       /\ qi' = q
       /\ reqLog' = Append(reqLog, Req("rows", PrimaryTable, q))
  ELSE /\ pc' = "done"
       /\ qi' = q
       /\ UNCHANGED reqLog

\* load has been called once only
NoLoad == [pc |-> "none"]

\* the state of a loader that has done nothing yet
Fresh ==
  /\ other = NoLoad
  /\ qi = 1
  /\ columnTypesCache = << >>
  /\ rows = << >>
  /\ ri = 1
  /\ expandedRows = << >>
  /\ processedRefs = {}
  /\ cache = EmptyMap
  /\ tableCache = EmptyMap
  /\ requestCount = 0
  /\ stack = << >>
  /\ fetching = << >>
  /\ processedRows = << >>
  /\ si = 1
  /\ store = EmptyMap
  /\ errorMsg = "none"
  /\ netLog = [t \in TableIds |-> 0]
  /\ sessLog = [t \in TableIds |-> 0]
  /\ failedKeys = {}
  /\ failedAt = {}
  /\ raised = {}
  /\ failures = 0
  /\ columnsDataCache = Null
  /\ spc = "idle"
  /\ schemaResult = "none"
  /\ reqLog = << >>
  /\ hookLog = << >>
  /\ settled = 0
  /\ failedReqs = {}

\* normalizeEmptyToObject not applied to anything
NormIdle ==
  /\ normValues = VMap(<< >>)
  /\ normTypes = << >>
  /\ normOut = VMap(<< >>)
  /\ normPasses = 0

\* cleanValues not applied to anything
CleanIdle ==
  /\ cleanIn = VMap(<< >>)
  /\ cleanOut = VMap(<< >>)
  /\ cleanPasses = 0

\* codaFormatToZodType not called
ZodIdle ==
  /\ zodColumn = Null
  /\ zodType = Null

\* generateColumnHelpers not called
HelperIdle ==
  /\ helperColumns = << >>
  /\ helperOut = Null

\* none of the exported functions has been called by itself
PureIdle == NormIdle /\ CleanIdle /\ ZodIdle /\ HelperIdle

\* codaLoader has returned the loader: the three identifiers are present,
\* cleanStrings has its default
Init ==
  /\ server \in Worlds
  /\ maxLookupDepth \in (0 - 1)..MaxDepth
  /\ nQueries \in 0..MaxQueries
  /\ token = TRUE
  /\ docId = TRUE
  /\ tableIdOrName = TRUE
  /\ cleanStrings = TRUE
  /\ pc = "init"
  /\ Fresh
  /\ PureIdle

\* ------------------------------------------------------------------- load

\* the columns response: id and format.type of the primary table's columns
ServerColumns == [items |-> ServerColumnTypes]

\* ConfigError without the test of docId
ConfigErrorSkipsDocId ==
  IF ~token THEN "token"
  ELSE IF ~tableIdOrName THEN "tableIdOrName"
  ELSE "none"

\* codaLoader: the three tests made before the loader is returned, and the
\* AstroError of the first that fails
ConfigError ==
  IF ~token THEN "token"
  ELSE IF ~docId THEN "docId"
  ELSE IF ~tableIdOrName THEN "tableIdOrName"
  ELSE "none"

\* codaLoader(options): raises the configuration error or returns the loader
CodaLoader ==
  /\ pc = "new"
  /\ errorMsg' = ConfigError
  /\ pc' = IF ConfigError = "none" THEN "init" ELSE "error"
  /\ UNCHANGED <<optionVars, schemaVars, pureVars, qi, columnTypesCache, loopVars,
                 contextVars, stack, fetching, storeVars, logVars, failures>>

\* load is called: with an empty column cache the columns are requested,
\* else the query loop starts
LoadStart ==
  /\ pc = "init"
  /\ IF columnTypesCache = << >>
     THEN /\ pc' = "columns"
          /\ reqLog' = Append(reqLog, Req("columns", PrimaryTable, 0))
          /\ UNCHANGED qi
     ELSE NextQuery(1)
  /\ UNCHANGED <<optionVars, schemaVars, pureVars, columnTypesCache, loopVars,
                 contextVars, stack, fetching, storeVars, errorMsg, obsVars, hookLog,
                 failedReqs, failures,
                 settled>>

\* the columns request answers: the response and the types are cached, the
\* query loop starts
ColumnsOk ==
  /\ pc = "columns"
  /\ settled' = settled + 1
  /\ columnsDataCache' = ServerColumns
  /\ columnTypesCache' = ServerColumnTypes
  /\ NextQuery(1)
  /\ UNCHANGED <<optionVars, spc, schemaResult, pureVars, loopVars, contextVars,
                 stack, fetching, storeVars, errorMsg, obsVars, hookLog, failedReqs,
                 failures>>

\* ColumnsFailed that lets the error leave load
ColumnsFailedThrows(q) ==
  /\ pc' = "error"
  /\ errorMsg' = "columns"
  /\ UNCHANGED <<qi, reqLog>>

\* load, catch around fetchColumnData: a warning is logged and load goes on
\* to its queries
ColumnsFailed(q) ==
  /\ NextQuery(q)
  /\ UNCHANGED errorMsg

\* the columns request fails: load warns and goes on without column types
ColumnsFail ==
  /\ pc = "columns"
  /\ settled' = settled + 1
  /\ failures < MaxFail
  /\ failures' = failures + 1
  /\ failedReqs' = failedReqs \cup {Req("columns", PrimaryTable, 0)}
  /\ ColumnsFailed(1)
  /\ UNCHANGED <<optionVars, schemaVars, pureVars, columnTypesCache, loopVars,
                 contextVars, stack, fetching, storeVars, obsVars, hookLog>>

\* load: "if (maxLookupDepth > 0)" around the call of expandLookups
LoadExpands(maxDepth) == maxDepth > 0

\* expandLookups: "if (maxDepth <= 0) return rows"
ExpandLookupsSkips(maxDepth) == maxDepth <= 0

\* fetchAndProcessRows: the rows request answers.  With maxLookupDepth > 0
\* expandLookups starts on data.items with a fresh context, else the items
\* are the processed rows.
PrimaryOk ==
  /\ pc = "primary"
  /\ settled' = settled + 1
  /\ LET items == QueryResult(server, qi) IN
       IF LoadExpands(maxLookupDepth) /\ ~ExpandLookupsSkips(maxLookupDepth)
       THEN /\ pc' = "expand"
            /\ rows' = items
            /\ ri' = 1
            /\ expandedRows' = << >>
            /\ processedRefs' = {}
            /\ cache' = EmptyMap
            /\ tableCache' = EmptyMap
            /\ requestCount' = 0
            /\ sessLog' = [t \in TableIds |-> 0]
            /\ failedKeys' = {}
            /\ failedAt' = {}
            /\ raised' = {}
            /\ UNCHANGED <<processedRows, si>>
       ELSE /\ pc' = "store"
            /\ processedRows' = items
            /\ si' = 1
            /\ UNCHANGED <<loopVars, contextVars, sessLog, failedKeys, failedAt, raised>>
  /\ UNCHANGED <<optionVars, schemaVars, pureVars, qi, columnTypesCache, stack,
                 fetching, store, errorMsg, netLog, reqLog, hookLog, failedReqs,
                 failures>>

\* fetchAndProcessRows on a non-success status: the message of the error
\* that leaves load.  response.json() is awaited first: when the error body
\* parses, the AstroError carries status, status text and body ("rows"); when
\* it does not, the SyntaxError is what load catches and wraps ("body")
RowsErrorMessage(parses) == IF parses THEN "rows" ELSE "body"

\* StoreAfterFailure of a load that takes back what it wrote
StoreRolledBack(s) == EmptyMap

\* load, catch: the error is thrown again, as it is or wrapped in an
\* AstroError; nothing is done to the store
StoreAfterFailure(s) == s

\* fetchAndProcessRows: the rows request answers with a non-success status;
\* the error leaves load
PrimaryFail ==
  /\ pc = "primary"
  /\ settled' = settled + 1
  /\ failures < MaxFail
  /\ failures' = failures + 1
  /\ failedReqs' = failedReqs \cup {Req("rows", PrimaryTable, qi)}
  /\ pc' = "error"
  /\ \E parses \in BOOLEAN : errorMsg' = RowsErrorMessage(parses)
  /\ store' = StoreAfterFailure(store)
  /\ UNCHANGED <<optionVars, schemaVars, pureVars, qi, columnTypesCache, loopVars,
                 contextVars, stack, fetching, processedRows, si, obsVars, reqLog,
                 hookLog>>

\* a call of the host framework: op is "parseData" or "set"
Call(op, id) == [op |-> op, id |-> id]

\* Sanitized that cleans whatever the option says
SanitizedAlways(values) == CleanValues(values)

\* load: "cleanStrings ? cleanValues(normalizedValues) : normalizedValues"
Sanitized(values) == IF cleanStrings THEN CleanValues(values) ELSE values

\* load: what is handed to parseData for a row: the row with its values
\* normalized and then cleaned
RowData(row) ==
  [row EXCEPT !.values = Sanitized(NormalizeEmptyToObject(row.values, columnTypesCache))]

\* StoreSet that keeps the entry an id already has
StoreSetKeepsFirst(s, id, data) == IF id \in DOMAIN s THEN s ELSE Put(s, id, data)

\* store.set({id, data}) of the host framework
StoreSet(s, id, data) == Put(s, id, data)

\* load: "parsedData = await parseData(...); store.set(...)" for one row
HookCalls(id) == <<Call("parseData", id), Call("set", id)>>

\* one row of processedRows is normalized, cleaned, parsed and stored; the
\* parse hook is taken to return at once
StoreRow ==
  /\ pc = "store"
  /\ si <= Len(processedRows)
  /\ processedRows[si].values.kind = "map"
  /\ LET row == processedRows[si]
         id == row.id
     IN /\ store' = StoreSet(store, id, ParseData(id, RowData(row)))
        /\ hookLog' = hookLog \o HookCalls(id)
  /\ si' = si + 1
  /\ UNCHANGED <<optionVars, schemaVars, pureVars, pc, qi, columnTypesCache, loopVars,
                 contextVars, stack, fetching, processedRows, errorMsg, obsVars,
                 reqLog, failedReqs, failures,
                 settled>>

\* a row without a values object: Object.entries(values) raises in
\* normalizeEmptyToObject, and load rethrows it as an AstroError
StoreRowThrows ==
  /\ pc = "store"
  /\ si <= Len(processedRows)
  /\ processedRows[si].values.kind # "map"
  /\ pc' = "error"
  /\ errorMsg' = "values"
  /\ store' = StoreAfterFailure(store)
  /\ UNCHANGED <<optionVars, schemaVars, pureVars, qi, columnTypesCache, loopVars,
                 contextVars, stack, fetching, processedRows, si, logVars, failures>>

\* every row of this query is stored: the next query, or the end of load
QueryDone ==
  /\ pc = "store"
  /\ si > Len(processedRows)
  /\ NextQuery(qi + 1)
  /\ UNCHANGED <<optionVars, schemaVars, pureVars, columnTypesCache, loopVars,
                 contextVars, stack, fetching, storeVars, errorMsg, obsVars, hookLog,
                 failedReqs, failures,
                 settled>>

\* ----------------------------------------------------------------- schema

\* SchemaOnFailure of a schema that lets the error out
SchemaOnFailureRaises == "raised"

\* schema, catch: the base row schema with "values: z.record(z.any())"
SchemaOnFailure == "open"

\* schema is called on the loader: with the columns response cached the
\* schema is built from it, else the columns are requested
SchemaStart ==
  /\ spc = "idle"
  /\ pc # "new"
  /\ ConfigError = "none"
  /\ IF columnsDataCache # Null
     THEN /\ spc' = "returned"
          /\ schemaResult' = "typed"
          /\ UNCHANGED reqLog
     ELSE /\ spc' = "columns"
          /\ reqLog' = Append(reqLog, Req("schema", PrimaryTable, 0))
          /\ UNCHANGED schemaResult
  /\ UNCHANGED <<optionVars, pureVars, pc, qi, columnTypesCache, columnsDataCache,
                 loopVars, contextVars, stack, fetching, storeVars, errorMsg, obsVars,
                 hookLog, failedReqs, failures,
                 settled>>

\* schema: the columns request answers; response and types are cached and
\* the schema built from the columns is returned
SchemaColumnsOk ==
  /\ spc = "columns"
  /\ settled' = settled + 1
  /\ columnsDataCache' = ServerColumns
  /\ columnTypesCache' = ServerColumnTypes
  /\ spc' = "returned"
  /\ schemaResult' = "typed"
  /\ UNCHANGED <<optionVars, pureVars, pc, qi, loopVars, contextVars, stack, fetching,
                 storeVars, errorMsg, obsVars, reqLog, hookLog, failedReqs, failures>>

\* schema: the columns request fails; the error is caught and the generic
\* schema returned
SchemaColumnsFail ==
  /\ spc = "columns"
  /\ settled' = settled + 1
  /\ failures < MaxFail
  /\ failures' = failures + 1
  /\ failedReqs' = failedReqs \cup {Req("schema", PrimaryTable, 0)}
  /\ spc' = "returned"
  /\ schemaResult' = SchemaOnFailure
  /\ UNCHANGED <<optionVars, pureVars, pc, qi, columnTypesCache, columnsDataCache,
                 loopVars, contextVars, stack, fetching, storeVars, errorMsg, obsVars,
                 reqLog, hookLog>>

\* -------------------------------------------------------- lookup expansion

\* a call expandRowLookups(row, ..., depth, maxDepth) that has just begun:
\* expandedValues (ev) is the copy of row.values, ci the entry the for loop
\* is at, ii / items / has the position, expandedItems and hasExpanded of
\* the inner loop over an array value
Frame(row, depth) ==
  [row |-> row, depth |-> depth, ci |-> 1, ii |-> 1,
   ev |-> IF row.values.kind = "map" THEN row.values.cols ELSE << >>,
   items |-> << >>, has |-> FALSE]

Top == stack[Len(stack)]

\* the stack with its innermost frame replaced
WithTop(f) == [stack EXCEPT ![Len(stack)] = f]

\* AtBase with the depth test off by one
AtBaseLate(f) == maxLookupDepth <= 0 \/ f.depth > maxLookupDepth

\* expandRowLookups: "if (maxDepth <= 0 || currentDepth >= maxDepth) return row"
AtBase(f) == maxLookupDepth <= 0 \/ f.depth >= maxLookupDepth

\* the frame is inside its for loop over Object.entries(row.values)
InLoop(f) == ~AtBase(f) /\ f.row.values.kind = "map" /\ f.ci <= Len(f.row.values.cols)

\* the value of the entry the for loop is at
CurValue(f) == f.row.values.cols[f.ci]

\* the frame is about to call expandSingleReference
AtRef(f) ==
  /\ InLoop(f)
  /\ \/ IsRawRowReference(CurValue(f))
     \/ /\ CurValue(f).kind = "list"
        /\ f.ii <= Len(CurValue(f).items)
        /\ IsRawRowReference(CurValue(f).items[f.ii])

\* the reference handed to expandSingleReference
CurRef(f) ==
  IF CurValue(f).kind = "list" THEN CurValue(f).items[f.ii] ELSE CurValue(f)

\* the place of that reference in its row: <<entry, item>>, item 0 for a
\* single value
CurPlace(f) == <<f.ci, IF CurValue(f).kind = "list" THEN f.ii ELSE 0>>

\* Advance that takes the same reference again after a null result
AdvanceRetries(f, result) ==
  IF result = Null
  THEN f
  ELSE IF f.row.values.cols[f.ci].kind = "list"
       THEN [f EXCEPT !.ii = @ + 1, !.items = Append(@, result), !.has = TRUE]
       ELSE [f EXCEPT !.ci = @ + 1, !.ev[f.ci] = result]

\* Advance without "if (expandedRef)" in front of the assignment
AdvanceAssignsNull(f, result) ==
  IF CurValue(f).kind = "list"
  THEN [f EXCEPT !.ii = @ + 1,
                 !.items = Append(@, IF result = Null THEN CurRef(f) ELSE result),
                 !.has = @ \/ result # Null]
  ELSE [f EXCEPT !.ci = @ + 1, !.ev[f.ci] = result]

\* Advance without the push of an item that was not expanded
AdvanceDropsItem(f, result) ==
  IF CurValue(f).kind = "list"
  THEN [f EXCEPT !.ii = @ + 1,
                 !.items = IF result = Null THEN @ ELSE Append(@, result),
                 !.has = @ \/ result # Null]
  ELSE [f EXCEPT !.ci = @ + 1,
                 !.ev[f.ci] = IF result = Null THEN @ ELSE result]

\* Advance that also writes the expanded reference into row.values
AdvanceInPlace(f, result) ==
  IF CurValue(f).kind = "list"
  THEN [f EXCEPT !.ii = @ + 1,
                 !.items = Append(@, IF result = Null THEN CurRef(f) ELSE result),
                 !.has = @ \/ result # Null]
  ELSE [f EXCEPT !.ci = @ + 1,
                 !.ev[f.ci] = IF result = Null THEN @ ELSE result,
                 !.row.values.cols[f.ci] = IF result = Null THEN @ ELSE result]

\* expandRowLookups after expandSingleReference returned result (null or the
\* expanded reference): a single reference is replaced only when expanded; in
\* an array the item or its expansion is pushed and hasExpanded is set
Advance(f, result) ==
  IF CurValue(f).kind = "list"
  THEN [f EXCEPT !.ii = @ + 1,
                 !.items = Append(@, IF result = Null THEN CurRef(f) ELSE result),
                 !.has = @ \/ result # Null]
  ELSE [f EXCEPT !.ci = @ + 1,
                 !.ev[f.ci] = IF result = Null THEN @ ELSE result]

\* IsProcessed of a set that is never consulted
IsProcessedNever(refKey) == FALSE

\* expandSingleReference: "context.processedRefs.has(refKey)"
IsProcessed(refKey) == refKey \in processedRefs

\* NeedsTableFetch without the test of the table cache
NeedsTableFetchAlways(t) == TRUE

\* expandSingleReference: "if (!context.tableCache[reference.tableId])" before
\* the call of fetchTableData
NeedsTableFetch(t) == t \notin DOMAIN tableCache

\* expandSingleReference once referencedRow is known: null is returned for a
\* missing row; else the key is marked processed and expandRowLookups is
\* called on the referenced row one level deeper
Continue(ref, referencedRow, depth) ==
  IF referencedRow = Null
  THEN /\ stack' = WithTop(Advance(Top, Null))
       /\ UNCHANGED processedRefs
  ELSE /\ processedRefs' = processedRefs \cup {RefKey(ref)}
       /\ stack' = Append(stack, Frame(referencedRow, depth + 1))

\* ClearedRefs without the clear
KeptRefs(refs) == refs

\* expandLookups: "context.processedRefs.clear()" at the top of the for loop
ClearedRefs(refs) == {}

\* AwaitingFetch of a call that does not wait
AwaitingFetchNever == FALSE

\* expandSingleReference: "await fetchTableData(...)"; the call and its
\* callers, which await it in turn, stand still until the fetch settles
AwaitingFetch == fetching # << >>

\* expandLookups: the for loop takes the next row, clears processedRefs and
\* calls expandRowLookups at depth 0
RowStart ==
  /\ pc = "expand"
  /\ stack = << >>
  /\ ri <= Len(rows)
  /\ processedRefs' = ClearedRefs(processedRefs)
  /\ stack' = <<Frame(rows[ri], 0)>>
  /\ UNCHANGED <<optionVars, schemaVars, pureVars, pc, qi, columnTypesCache, loopVars, cache, tableCache,
                 requestCount, fetching, storeVars, errorMsg, logVars, failures>>

\* expandRowLookups: an entry that is neither a reference nor an array, an
\* array item that is no reference, or the end of an array
ExamineValue ==
  /\ pc = "expand"
  /\ stack # << >>
  /\ ~AwaitingFetch
  /\ InLoop(Top)
  /\ ~AtRef(Top)
  /\ LET f == Top
         v == CurValue(f)
     IN stack' = WithTop(
          IF v.kind # "list"
          THEN [f EXCEPT !.ci = @ + 1]
          ELSE IF f.ii <= Len(v.items)
               THEN [f EXCEPT !.ii = @ + 1, !.items = Append(@, v.items[f.ii])]
               ELSE [f EXCEPT !.ci = @ + 1, !.ii = 1, !.items = << >>, !.has = FALSE,
                              !.ev[f.ci] = IF f.has THEN List(f.items) ELSE @])
  /\ UNCHANGED <<optionVars, schemaVars, pureVars, pc, qi, columnTypesCache, loopVars, contextVars,
                 fetching, storeVars, errorMsg, logVars, failures>>

\* a counter that counts nothing
CountRequestNever(n) == n

\* expandSingleReference: "context.requestCount++"
CountRequest(n) == n + 1

\* expandSingleReference up to its first await or its return
ExpandSingleReference ==
  /\ pc = "expand"
  /\ stack # << >>
  /\ ~AwaitingFetch
  /\ AtRef(Top)
  /\ LET f == Top
         ref == CurRef(f)
         refKey == RefKey(ref)
         t == ref.tableId
         fromTable == IF t \in DOMAIN tableCache THEN MapGet(tableCache[t], ref.rowId)
                      ELSE Null
         fromCache == IF fromTable = Null /\ refKey \in DOMAIN cache THEN cache[refKey]
                      ELSE fromTable
     IN IF IsProcessed(refKey)
        THEN \* circular reference: null, nothing fetched
             /\ stack' = WithTop(Advance(f, Null))
             /\ UNCHANGED <<contextVars, fetching, netLog, sessLog, reqLog>>
        ELSE IF fromCache = Null /\ refKey \notin DOMAIN cache
        THEN IF NeedsTableFetch(t)
             THEN \* the whole table is requested
                  /\ requestCount' = CountRequest(requestCount)
                  /\ netLog' = [netLog EXCEPT ![t] = @ + 1]
                  /\ sessLog' = [sessLog EXCEPT ![t] = @ + 1]
                  /\ reqLog' = Append(reqLog, Req("table", t, 0))
                  /\ fetching' = <<[tableId |-> t, rowsMap |-> EmptyMap, page |-> 1]>>
                  /\ UNCHANGED <<stack, processedRefs, cache, tableCache>>
             ELSE \* the table is cached and lacks the row
                  /\ cache' = Put(cache, refKey, MapGet(tableCache[t], ref.rowId))
                  /\ Continue(ref, MapGet(tableCache[t], ref.rowId), f.depth)
                  /\ UNCHANGED <<tableCache, requestCount, fetching, netLog, sessLog,
                                 reqLog>>
        ELSE /\ Continue(ref, fromCache, f.depth)
             /\ UNCHANGED <<cache, tableCache, requestCount, fetching, netLog, sessLog,
                            reqLog>>
  /\ UNCHANGED <<optionVars, schemaVars, pureVars, pc, qi, columnTypesCache, loopVars, storeVars, errorMsg,
                 failedKeys, failedAt, raised, hookLog, failedReqs, failures,
                 settled>>

\* fetchTableData: "pageToken = data.nextPageToken" for the page just read,
\* 0 standing for no token; the server names the following page
NextPageToken(page, pages) == IF page < Len(pages) THEN page + 1 ELSE 0

\* SetRows that keeps the row an id already has in the map
SetRowsKeepsFirst(m, items) ==
  LET ids == {items[i].id : i \in 1..Len(items)}
  IN [r \in (DOMAIN m) \cup ids |->
        IF r \in DOMAIN m THEN m[r]
        ELSE items[CHOOSE i \in 1..Len(items) :
                     /\ items[i].id = r
                     /\ \A j \in 1..(i - 1) : items[j].id # r]]

\* fetchTableData: "for (const row of data.items) rowsMap.set(row.id, row)"
SetRows(m, items) ==
  LET ids == {items[i].id : i \in 1..Len(items)}
  IN [r \in (DOMAIN m) \cup ids |->
        IF r \in ids
        THEN items[CHOOSE i \in 1..Len(items) :
                     /\ items[i].id = r
                     /\ \A j \in (i + 1)..Len(items) : items[j].id # r]
        ELSE m[r]]

\* fetchTableData: a page answers; its rows go into rowsMap.  With a
\* nextPageToken the next page is requested; else the map becomes the table's
\* cache entry and expandSingleReference goes on with the row read from it.
FetchPageOk ==
  /\ pc = "expand"
  /\ settled' = settled + 1
  /\ fetching # << >>
  /\ LET fs == fetching[1]
         t == fs.tableId
         pages == ServerPages(server, t)
         items == pages[fs.page]
         rowsMap == SetRows(fs.rowsMap, items)
         pageToken == NextPageToken(fs.page, pages)
         ref == CurRef(Top)
         referencedRow == MapGet(rowsMap, ref.rowId)
     IN IF pageToken # 0
        THEN /\ fetching' = <<[fs EXCEPT !.rowsMap = rowsMap, !.page = pageToken]>>
             /\ reqLog' = Append(reqLog, Req("table", t, pageToken))
             /\ UNCHANGED <<stack, processedRefs, cache, tableCache>>
        ELSE /\ fetching' = << >>
             /\ UNCHANGED reqLog
             /\ tableCache' = Put(tableCache, t, rowsMap)
             /\ cache' = Put(cache, RefKey(ref), referencedRow)
             /\ Continue(ref, referencedRow, Top.depth)
  /\ UNCHANGED <<optionVars, schemaVars, pureVars, pc, qi, columnTypesCache, loopVars,
                 requestCount, storeVars, errorMsg, obsVars, hookLog, failedReqs,
                 failures>>

\* AbortedFetch that keeps the rows of the pages read so far
AbortedFetchKeepsPages(tc, t, rowsMap) == Put(tc, t, rowsMap)

\* expandSingleReference: "context.tableCache[tableId] = await
\* fetchTableData(...)" when fetchTableData throws: nothing is assigned
AbortedFetch(tc, t, rowsMap) == tc

\* CacheFailure without the write
CacheNothing(c, refKey) == c

\* expandSingleReference, catch: "context.cache[refKey] = null"
CacheFailure(c, refKey) == Put(c, refKey, Null)

\* fetchTableData: a page request times out, answers with a non-success
\* status or with an unparsable body; expandSingleReference catches the
\* error, caches null for the key and returns null
FetchPageFail ==
  /\ pc = "expand"
  /\ settled' = settled + 1
  /\ fetching # << >>
  /\ failures < MaxFail
  /\ failures' = failures + 1
  /\ fetching' = << >>
  /\ failedReqs' = failedReqs \cup
       {Req("table", fetching[1].tableId,
            IF fetching[1].page = 1 THEN 0 ELSE fetching[1].page)}
  /\ tableCache' = AbortedFetch(tableCache, fetching[1].tableId, fetching[1].rowsMap)
  /\ cache' = CacheFailure(cache, RefKey(CurRef(Top)))
  /\ stack' = WithTop(Advance(Top, Null))
  /\ failedKeys' = failedKeys \cup {RefKey(CurRef(Top))}
  /\ failedAt' = IF Len(stack) = 1
                 THEN failedAt \cup {<<ri, CurPlace(Top)[1], CurPlace(Top)[2]>>}
                 ELSE failedAt
  /\ UNCHANGED <<optionVars, schemaVars, pureVars, pc, qi, columnTypesCache, loopVars,
                 processedRefs, requestCount, storeVars, errorMsg, netLog, sessLog,
                 raised, reqLog, hookLog>>

\* expandRowLookups returns: at the base case the row itself, else the row
\* with expandedValues.  The caller is expandSingleReference, which builds
\* the expanded reference for its own caller, or expandLookups, which pushes
\* the row onto expandedRows.
ReturnRow ==
  /\ pc = "expand"
  /\ stack # << >>
  /\ ~AwaitingFetch
  /\ LET f == Top
         result == IF AtBase(f) THEN f.row ELSE [f.row EXCEPT !.values = VMap(f.ev)]
         rest == SubSeq(stack, 1, Len(stack) - 1)
     IN /\ \/ AtBase(f)
           \/ f.row.values.kind = "map" /\ f.ci > Len(f.row.values.cols)
        /\ IF rest = << >>
           THEN /\ expandedRows' = Append(expandedRows, result)
                /\ ri' = ri + 1
                /\ stack' = << >>
           ELSE /\ LET parent == rest[Len(rest)]
                   IN stack' = [rest EXCEPT ![Len(rest)] =
                                  Advance(parent, ExpandedRef(CurRef(parent), result))]
                /\ UNCHANGED <<expandedRows, ri>>
  /\ UNCHANGED <<optionVars, schemaVars, pureVars, pc, qi, columnTypesCache, rows, contextVars, fetching,
                 storeVars, errorMsg, logVars, failures>>

\* CatchRow without the push
CatchRowDrops(result, row) == result

\* expandLookups, catch: "expandedRows.push(row)"
CatchRow(result, row) == Append(result, row)

\* expandRowLookups on a row without a values object: Object.entries raises a
\* TypeError, which no expandSingleReference catches; the catch of
\* expandLookups pushes the original top-level row
RowThrows ==
  /\ pc = "expand"
  /\ stack # << >>
  /\ ~AwaitingFetch
  /\ ~AtBase(Top)
  /\ Top.row.values.kind # "map"
  /\ expandedRows' = CatchRow(expandedRows, rows[ri])
  /\ ri' = ri + 1
  /\ stack' = << >>
  /\ raised' = raised \cup {ri}
  /\ UNCHANGED <<optionVars, schemaVars, pureVars, pc, qi, columnTypesCache, rows, contextVars, fetching,
                 storeVars, errorMsg, netLog, sessLog, failedKeys, failedAt, reqLog,
                 hookLog, failedReqs, failures,
                 settled>>

\* expandLookups returns expandedRows, which load goes on to store
ExpandLookupsReturn ==
  /\ pc = "expand"
  /\ stack = << >>
  /\ ri > Len(rows)
  /\ pc' = "store"
  /\ processedRows' = expandedRows
  /\ si' = 1
  /\ UNCHANGED <<optionVars, schemaVars, pureVars, qi, columnTypesCache, loopVars, contextVars, stack,
                 fetching, store, errorMsg, logVars, failures>>

Next ==
  \/ LoadStart
  \/ ColumnsOk
  \/ ColumnsFail
  \/ PrimaryOk
  \/ PrimaryFail
  \/ RowStart
  \/ ExamineValue
  \/ ExpandSingleReference
  \/ FetchPageOk
  \/ FetchPageFail
  \/ ReturnRow
  \/ RowThrows
  \/ ExpandLookupsReturn
  \/ StoreRow
  \/ StoreRowThrows
  \/ QueryDone

Spec == Init /\ [][Next]_vars

\* --------------------------------------- normalizeEmptyToObject by itself

\* the column types normalizeEmptyToObject tells apart, a type it does not
\* know ("text"), and no type
ColumnTypeNames ==
  {"link", "number", "slider", "currency", "boolean", "checkbox", "person", "image",
   "lookup", "text", ""}

\* cell values of every shape the API delivers: missing, null, empty and
\* other strings, numbers, booleans, tagged objects, arrays
CellValues ==
  {Undefined, Null, Empty, Str(<<"1", "2">>), Str(<<"a", "b">>),
   Str(<<"T", "R", "U", "E">>), Str(<<"f", "a", "l", "s", "e">>), Str(<<"y", "e", "s">>),
   Str(<<"T", "r", "u", "e">>), Str(<<"F", "A", "L", "S", "E">>),
   Str(<<"t", "r", "u", "e", "s">>), Str(<<" ", "7", " ">>), Str(<<" ">>),
   Num(0), Num(7), Bool(TRUE), Bool(FALSE), WebPage(<<"u">>), Person(<<"n">>), Image,
   Object, Ref("t2", "b1"), List(<< >>), List(<<Image>>), List(<<Ref("t2", "b1")>>),
   List(<<Str(<<"1">>)>>)}

\* a values object of two entries, the first of a column whose type is
\* given, the second of a column without a known type; the table may have a
\* third column, declared link, of which the row has no cell
NormInit ==
  /\ \E v1 \in CellValues, v2 \in {Empty, Ref("t2", "b1")} : normValues = VMap(<<v1, v2>>)
  /\ \E ct \in ColumnTypeNames : normTypes \in {<<ct>>, <<ct, "", "link">>}
  /\ normOut = normValues
  /\ normPasses = 0
  /\ server = CHOOSE w \in Worlds : TRUE
  /\ maxLookupDepth = 0
  /\ nQueries = 0
  /\ token = TRUE
  /\ docId = TRUE
  /\ tableIdOrName = TRUE
  /\ cleanStrings = TRUE
  /\ pc = "new"
  /\ Fresh
  /\ CleanIdle
  /\ ZodIdle
  /\ HelperIdle

\* normalizeEmptyToObject is applied to the result of the pass before
Normalize ==
  /\ normPasses < MaxPasses
  /\ normOut.kind = "map"
  /\ normOut' =
       IF \E i \in DOMAIN normOut.cols :
            i \in DOMAIN normTypes /\ NormalizeThrows(normTypes[i], normOut.cols[i])
       THEN TypeError
       ELSE NormalizeEmptyToObject(normOut, normTypes)
  /\ normPasses' = normPasses + 1
  /\ UNCHANGED <<normValues, normTypes, cleanVars, zodVars, helperVars, other, optionVars, schemaVars, pc, qi,
                 columnTypesCache, loopVars, contextVars, stack, fetching, storeVars,
                 errorMsg, logVars, failures>>

NormNext == Normalize

NormSpec == NormInit /\ [][NormNext]_vars

\* ------------------------------------------------- cleanValues by itself

\* no loader has been built: the state of the program while one of its
\* exported functions is called by itself
Unloaded ==
  /\ server = CHOOSE w \in Worlds : TRUE
  /\ maxLookupDepth = 0
  /\ nQueries = 0
  /\ token = TRUE
  /\ docId = TRUE
  /\ tableIdOrName = TRUE
  /\ cleanStrings = TRUE
  /\ pc = "new"
  /\ Fresh

\* three backticks
Fence == <<Backtick, Backtick, Backtick>>

\* strings with and without backticks: plain, wrapped once and twice, in
\* single backticks, with a fence at one end only, with text in front of or
\* behind the wrapper, with a newline or a fence inside, of backticks only
CleanStrings ==
  {<< >>, <<"h", "i">>, Fence \o <<"h", "i">> \o Fence,
   Fence \o Fence \o <<"h", "i">> \o Fence \o Fence,
   <<Backtick, "h", "i", Backtick>>, Fence \o <<"h", "i">>, <<"h", "i">> \o Fence,
   <<"x">> \o Fence \o <<"h", "i">> \o Fence, Fence \o <<"h", "i">> \o Fence \o <<"nl">>,
   Fence \o <<"h", "nl", "i">> \o Fence, Fence \o <<"a">> \o Fence \o <<"b">> \o Fence,
   Fence, Fence \o <<Backtick>>, Fence \o <<Backtick, Backtick>>, Fence \o Fence,
   Fence \o <<"h">> \o Fence}

\* the values cleanValues meets: strings, the other primitives, arrays,
\* nested mappings, tagged objects, and expanded references whose embedded
\* values hold strings, one of them inside a further expanded reference
CleanCells ==
  {Str(x) : x \in CleanStrings}
  \cup {Null, Num(0), Num(7), Bool(TRUE), Bool(FALSE), Image, Object, Ref("t2", "b1"),
        WebPage(Fence \o <<"u">> \o Fence), Person(<<"n">>),
        List(<< >>), List(<<Str(Fence \o <<"h">> \o Fence), Num(7), Null>>),
        List(<<Str(<<"h">>), Str(Fence \o Fence \o <<"h">> \o Fence \o Fence)>>),
        VMap(<<Str(Fence \o <<"h">> \o Fence), Bool(TRUE)>>),
        VMap(<<List(<<Str(Fence \o <<"h">> \o Fence)>>)>>),
        ExpandedRef(Ref("t2", "b1"),
                    Row("b1", VMap(<<Str(Fence \o <<"h">> \o Fence), Num(7)>>))),
        List(<<ExpandedRef(Ref("t2", "b1"),
                           Row("b1", VMap(<<Str(Fence \o <<"h">> \o Fence)>>)))>>),
        ExpandedRef(Ref("t2", "b1"),
                    Row("b1", VMap(<<ExpandedRef(Ref("t2", "b2"),
                                                 Row("b2", VMap(<<Str(Fence \o <<"h">> \o Fence)>>)))>>)))}

\* a values object of two entries
CleanInit ==
  /\ \E v1 \in CleanCells, v2 \in {Str(Fence \o <<"h">> \o Fence), Num(7), Null} :
       cleanIn = VMap(<<v1, v2>>)
  /\ cleanOut = cleanIn
  /\ cleanPasses = 0
  /\ Unloaded
  /\ NormIdle
  /\ ZodIdle
  /\ HelperIdle

\* cleanValues is applied to the result of the pass before
Clean ==
  /\ cleanPasses < MaxPasses
  /\ cleanOut' = CleanValues(cleanOut)
  /\ cleanPasses' = cleanPasses + 1
  /\ UNCHANGED <<cleanIn, normVars, zodVars, helperVars, other, optionVars, schemaVars, pc, qi,
                 columnTypesCache, loopVars, contextVars, stack, fetching, storeVars,
                 errorMsg, logVars, failures>>

CleanNext == Clean

CleanSpec == CleanInit /\ [][CleanNext]_vars

\* ------------------------------------------ codaFormatToZodType by itself

\* the Zod types codaFormatToZodType builds
ZNumber == [zod |-> "number"]
ZBoolean == [zod |-> "boolean"]
ZNull == [zod |-> "null"]
ZString == [zod |-> "string"]
ZAny == [zod |-> "any"]
ZNever == [zod |-> "never"]
\* webPageSchema, imageObjectSchema, personSchema and the extended
\* rowReferenceSchema: objects with the fields of the tagged object
ZWebPage == [zod |-> "webPage"]
ZImageObject == [zod |-> "imageObject"]
ZPerson == [zod |-> "person"]
ZRowReference == [zod |-> "rowReference"]
ZArray(t) == [zod |-> "array", of |-> t]
ZUnion(ts) == [zod |-> "union", of |-> ts]

\* the text "Hyperlink(", character by character
HyperlinkCall == <<"H", "y", "p", "e", "r", "l", "i", "n", "k", "(">>

\* String.prototype.includes
Includes(s, part) ==
  \E i \in 0..(Len(s) - Len(part)) : SubSeq(s, i + 1, i + Len(part)) = part

\* "switch (format.type)": the Zod type of a column type
BaseZodType(type) ==
  CASE type \in {"number", "slider", "currency"} -> ZNumber
    [] type \in {"boolean", "checkbox"} -> ZUnion(<<ZBoolean, ZNull>>)
    [] type = "text" -> ZString
    [] type \in {"date", "datetime", "time"} -> ZString
    [] type = "select" -> ZString
    [] type = "image" -> ZArray(ZImageObject)
    [] type = "link" -> ZWebPage
    [] type = "person" -> ZPerson
    [] type = "lookup" -> ZArray(ZRowReference)
    [] OTHER -> ZAny

\* "if (format.isArray && ...)": the union with the empty array for an array
\* column that is neither image nor lookup
WidenArray(format, t) ==
  IF format.isArray /\ format.type # "image" /\ format.type # "lookup"
  THEN ZUnion(<<ZArray(ZNever), ZArray(t)>>)
  ELSE t

\* CodaFormatToZodType without the test of the formula
CodaFormatToZodTypeByTypeOnly(format, formula) ==
  WidenArray(format, BaseZodType(format.type))

\* codaFormatToZodType(format, columnName, formula), without the description
\* it attaches; formula is a string, null or missing
CodaFormatToZodType(format, formula) ==
  IF formula.kind = "str" /\ formula.s # << >> /\ Includes(formula.s, HyperlinkCall)
  THEN ZUnion(<<ZString, ZWebPage>>)
  ELSE WidenArray(format, BaseZodType(format.type))

\* the values of format.type: the documented ones and one that is not
FormatTypes ==
  {"text", "number", "slider", "currency", "boolean", "checkbox", "date", "datetime",
   "time", "select", "image", "link", "person", "lookup", "scale", "button", "canvas"}

\* formula texts: none, empty, calls of Hyperlink, and texts without a call
Formulas ==
  {Undefined, Null, Empty,
   Str(HyperlinkCall \o <<"a", ")">>),
   Str(<<"I", "f", "(", "x", ",">> \o HyperlinkCall \o <<"a", ")", ")">>),
   Str(<<"H", "y", "p", "e", "r", "l", "i", "n", "k">>),
   Str(<<"S", "u", "m", "(", "a", ")">>),
   Str(<<"H", "y", "p", "e", "r", "(", "l", "i", "n", "k", "(", ")">>)}

\* a column of the columns response
ZodInit ==
  /\ \E type \in FormatTypes, isArray \in BOOLEAN, formula \in Formulas :
       zodColumn = [format |-> [type |-> type, isArray |-> isArray], formula |-> formula]
  /\ zodType = Null
  /\ Unloaded
  /\ NormIdle
  /\ CleanIdle
  /\ HelperIdle

\* schema: the call codaFormatToZodType(column.format, columnName,
\* column.formula) for a column
InferColumn ==
  /\ zodType = Null
  /\ zodType' = CodaFormatToZodType(zodColumn.format, zodColumn.formula)
  /\ UNCHANGED <<zodColumn, normVars, cleanVars, helperVars, other, optionVars, schemaVars, pc,
                 qi, columnTypesCache, loopVars, contextVars, stack, fetching, storeVars,
                 errorMsg, logVars, failures>>

ZodNext == InferColumn

ZodSpec == ZodInit /\ [][ZodNext]_vars

\* ---------------------------------------- generateColumnHelpers by itself

\* the characters of column names: ASCII letters, digits and underscore
\* (the \w of a regular expression without the u flag), blanks, the dot,
\* other ASCII symbols, letters outside ASCII, and emoji, each of which is a
\* surrogate pair
LowerLetters == {"t", "r", "u", "e", "f", "a", "l", "s"}
UpperLetters == {"T", "R", "U", "E", "F", "A", "L", "S"}
DigitChars == {Digits[d] : d \in 1..10}
WordChars == LowerLetters \cup UpperLetters \cup DigitChars \cup {"_"}
KanaLetters == {"ta", "su", "ku", "tan", "tou", "sha"}
EmojiChars == {"party"}

\* String.prototype.toUpperCase on the letters in use
ToUpperCase(s) ==
  [i \in 1..Len(s) |->
     CASE s[i] = "t" -> "T" [] s[i] = "r" -> "R" [] s[i] = "u" -> "U"
       [] s[i] = "e" -> "E" [] s[i] = "f" -> "F" [] s[i] = "a" -> "A"
       [] s[i] = "l" -> "L" [] s[i] = "s" -> "S" [] OTHER -> s[i]]

\* the characters of s that are in set keep, in order
RECURSIVE Filter(_, _)
Filter(s, keep) ==
  IF s = << >> THEN s
  ELSE IF s[1] \in keep THEN <<s[1]>> \o Filter(Tail(s), keep)
  ELSE Filter(Tail(s), keep)

\* makeSafePropertyName, first statement: surrogate pairs and every
\* character that is not \w, whitespace or a dot are removed, then the ends
\* are trimmed
CleanStr(str) == Trim(Filter(str, WordChars \cup Whitespace \cup {"."}))

\* /(?:^\w|[A-Z]|\b\w)/g matches the character at position i of s
CamelMatch(s, i) ==
  \/ i = 1 /\ s[i] \in WordChars
  \/ s[i] \in UpperLetters
  \/ s[i] \in WordChars /\ (i = 1 \/ s[i - 1] \notin WordChars)

\* the camelCase replace: a match at index 0 is lowered, any other raised
CamelCase(s) ==
  [i \in 1..Len(s) |->
     IF CamelMatch(s, i)
     THEN IF i = 1 THEN ToLowerCase(<<s[i]>>)[1] ELSE ToUpperCase(<<s[i]>>)[1]
     ELSE s[i]]

\* .replace(/^(?:[0-9]|$)/, '_$&'): an underscore in front of an empty
\* string and of a leading digit
PrefixPlaceholder(s) ==
  IF s = << >> \/ s[1] \in DigitChars THEN <<"_">> \o s ELSE s

\* makeSafePropertyName
MakeSafePropertyName(str) ==
  PrefixPlaceholder(
    Filter(CamelCase(CleanStr(str)),
           (WordChars \cup Whitespace \cup {"."}) \ (Whitespace \cup {"."})))

\* generateColumnHelpers: the entries of the COLUMNS object literal it
\* writes, one per column, in order
GenerateColumnHelpers(columns) ==
  [i \in 1..Len(columns) |->
     [property |-> MakeSafePropertyName(columns[i].name), id |-> columns[i].id]]

\* column names: of ASCII words in several casings and separations, with a
\* leading digit, with symbols, with a dot, empty, of letters outside ASCII
\* (two different names), of an emoji alone and with a word
ColumnNames ==
  {<<"R", "a", "t", "e">>, <<"f", "e", "e">>, <<"s", "a", "l", "e", " ", "r", "a", "t", "e">>,
   <<"S", "a", "l", "e", " ", "R", "a", "t", "e">>, <<"f", "e", "e", " ", "(", "$", ")">>,
   <<"1", "s", "t">>, <<"l", "a", "s", "t", ".", "s", "a", "l", "e">>,
   <<"s", "a", "l", "e", "_", "r", "a", "t", "e">>, << >>,
   <<"ta", "su", "ku">>, <<"tan", "tou", "sha">>, <<"party">>,
   <<"party", " ", "t", "a", "l", "e", "s">>, <<" ", "u", "s", "e", "r", " ">>}

\* the columns of a table: two columns with different ids and names
HelperInit ==
  /\ \E n1 \in ColumnNames : \E n2 \in ColumnNames \ {n1} :
       helperColumns = <<[id |-> "c1", name |-> n1], [id |-> "c2", name |-> n2]>>
  /\ helperOut = Null
  /\ Unloaded
  /\ NormIdle
  /\ CleanIdle
  /\ ZodIdle

\* the generate command: generateColumnHelpers(columnsData.items)
Generate ==
  /\ helperOut = Null
  /\ helperOut' = GenerateColumnHelpers(helperColumns)
  /\ UNCHANGED <<helperColumns, normVars, cleanVars, zodVars, other, optionVars, schemaVars, pc,
                 qi, columnTypesCache, loopVars, contextVars, stack, fetching, storeVars,
                 errorMsg, logVars, failures>>

HelperNext == Generate

HelperSpec == HelperInit /\ [][HelperNext]_vars

\* a string wrapped in triple backticks
Wrapped == Str(<<Backtick, Backtick, Backtick, "h", Backtick, Backtick, Backtick>>)

\* the documents served to a loader whose options vary: a1 references b1 and,
\* in a list, b2; b2 holds a wrapped string; a2 references b2, holds a
\* wrapped string or comes without values; table t2 may be served in two
\* pages with an older copy of b1 on the first
LoaderWorlds ==
  { [r \in RowIds \cup old |->
       CASE r = "a1" -> Row("a1", VMap(<<Ref("t2", "b1"), List(<<Ref("t2", "b2")>>)>>))
         [] r = "a2" -> Row("a2", va2)
         [] r = "b1" -> Row("b1", vb1)
         [] r = "b2" -> Row("b2", VMap(<<Wrapped, List(<< >>)>>))
         [] OTHER -> Row("b1", VMap(<<Empty, List(<< >>)>>))] :
      va2 \in {VMap(<<Ref("t2", "b2"), List(<< >>)>>), VMap(<<Wrapped, List(<< >>)>>),
               Undefined},
      vb1 \in {VMap(<<Ref("t2", "b2"), List(<< >>)>>), VMap(<<Empty, List(<< >>)>>)},
      old \in {{}, {"b1old"}} }

\* codaLoader is about to be called with some options
LoaderInit ==
  /\ server \in LoaderWorlds
  /\ maxLookupDepth \in 0..(MaxDepth - 1)
  /\ nQueries \in 0..MaxQueries
  /\ token \in BOOLEAN
  /\ docId \in BOOLEAN
  /\ tableIdOrName \in BOOLEAN
  /\ cleanStrings \in BOOLEAN
  /\ pc = "new"
  /\ Fresh
  /\ PureIdle

\* the loader is built, then load and schema are called on it, in any order
LoaderNext ==
  \/ CodaLoader
  \/ SchemaStart
  \/ SchemaColumnsOk
  \/ SchemaColumnsFail
  \/ Next

LoaderSpec == LoaderInit /\ [][LoaderNext]_vars

\* a loader that runs a single query
LoaderLiveInit == LoaderInit /\ nQueries = 1

\* every request is answered or fails, and the tasks run on
LoaderFairSpec == LoaderLiveInit /\ [][LoaderNext]_vars /\ WF_vars(LoaderNext)

\* a load that runs a single query: one call of expandLookups
LiveInit == Init /\ nQueries = 1

\* every request is answered or fails, and the task runs on
FairSpec == LiveInit /\ [][Next]_vars /\ WF_vars(Next)

\* ------------------------------------------------- reading output values

\* the larger of two numbers
Max(a, b) == IF a >= b THEN a ELSE b

\* how deep expanded references are nested inside a value
RECURSIVE NestDepth(_), NestDepthFrom(_, _)
NestDepth(v) ==
  CASE v.kind = "ref" ->
         IF IsExpanded(v) THEN 1 + NestDepth(v.values.values) ELSE 0
    [] v.kind = "list" -> NestDepthFrom(v.items, 1)
    [] v.kind = "map" -> NestDepthFrom(v.cols, 1)
    [] OTHER -> 0

NestDepthFrom(seq, i) ==
  IF i > Len(seq) THEN 0
  ELSE LET here == NestDepth(seq[i])
           after == NestDepthFrom(seq, i + 1)
       IN Max(here, after)

\* whether the value holds, at any nesting, an expanded reference to key
RECURSIVE Embeds(_, _)
Embeds(v, key) ==
  CASE v.kind = "ref" ->
         IsExpanded(v) /\ (RefKey(v) = key \/ Embeds(v.values.values, key))
    [] v.kind = "list" -> \E i \in 1..Len(v.items) : Embeds(v.items[i], key)
    [] v.kind = "map" -> \E i \in 1..Len(v.cols) : Embeds(v.cols[i], key)
    [] OTHER -> FALSE

\* the value with every expanded reference put back to the plain reference
RECURSIVE Strip(_)
Strip(v) ==
  CASE v.kind = "ref" -> Ref(v.tableId, v.rowId)
    [] v.kind = "list" -> List([i \in 1..Len(v.items) |-> Strip(v.items[i])])
    [] v.kind = "map" -> VMap([i \in 1..Len(v.cols) |-> Strip(v.cols[i])])
    [] OTHER -> v

\* the references standing directly in a values object: single values and
\* array items
DirectRefs(values) ==
  IF values.kind # "map" THEN {}
  ELSE {values.cols[c] : c \in {c \in 1..Len(values.cols) : values.cols[c].kind = "ref"}}
       \cup UNION { {values.cols[c].items[j] :
                       j \in {j \in 1..Len(values.cols[c].items) :
                                values.cols[c].items[j].kind = "ref"}} :
                    c \in {c \in 1..Len(values.cols) : values.cols[c].kind = "list"} }

\* the keys of the references of a values object in order, arrays flattened
RECURSIVE KeysFrom(_, _)
KeysFrom(seq, i) ==
  IF i > Len(seq) THEN << >>
  ELSE (CASE seq[i].kind = "ref" -> <<RefKey(seq[i])>>
          [] seq[i].kind = "list" -> KeysFrom(seq[i].items, 1)
          [] OTHER -> << >>) \o KeysFrom(seq, i + 1)

RefKeysOf(values) == IF values.kind = "map" THEN KeysFrom(values.cols, 1) ELSE << >>

\* the value at entry c, item j (0: the entry itself) of a values object
ValueAt(values, c, j) == IF j = 0 THEN values.cols[c] ELSE values.cols[c].items[j]

\* the server holds the referenced row in the referenced table
Resolvable(ref) ==
  /\ ref.tableId \in TableIds
  /\ \E p \in 1..Len(ServerPages(server, ref.tableId)) :
       \E i \in 1..Len(ServerPages(server, ref.tableId)[p]) :
         ServerPages(server, ref.tableId)[p][i].id = ref.rowId

\* output row i holds, somewhere, the expansion of every reference that
\* stands directly in input row i, names a row the server has and met no
\* failed fetch
DirectRefsExpanded(i) ==
  \A R \in DirectRefs(rows[i].values) :
    Resolvable(R) /\ RefKey(R) \notin failedKeys
      => Embeds(expandedRows[i].values, RefKey(R))

\* the table fetches of this expandLookups call that failed
FailedFetches(t) == Cardinality({k \in failedKeys : k[1] = t})

\* ----------------------------------------------------------------- claims

\* the server of the cycle a1 -> b1 -> a1
CycleWorld ==
  /\ server["a1"].values.cols[1] = Ref("t2", "b1")
  /\ server["b1"].values.kind = "map"
  /\ server["b1"].values.cols[1] = Ref("t1", "a1")

\* C1: when top-level row a1 references b1 and b1 references a1, the output
\* of a1 at the largest depth holds no expansion of a1 itself: the reference
\* back to a1 found in b1 stays a plain reference.
C1_BackReferenceUnexpanded ==
  (CycleWorld /\ maxLookupDepth = MaxDepth /\ pc = "expand" /\ qi = 1
     /\ Len(expandedRows) >= 1)
    => ~Embeds(expandedRows[1].values, <<PrimaryTable, "a1">>)

\* C2: in the output of a top-level row whose expansion met no error, every
\* reference standing directly in the row that names a row the server has,
\* other than the top-level row itself (its only ancestor), is expanded where
\* it stands, also when the same row was expanded before in a sibling entry
\* or in a branch below one.
C2_SiblingStillExpanded ==
  (pc = "expand" /\ failedKeys = {})
    => \A i \in 1..Len(expandedRows) :
         i \notin raised =>
           \A c \in 1..Len(expandedRows[i].values.cols) :
             LET v == expandedRows[i].values.cols[c]
                 Fine(x) == (x.kind = "ref" /\ Resolvable(x)
                               /\ RefKey(x) # <<PrimaryTable, rows[i].id>>)
                             => IsExpanded(x)
             IN /\ Fine(v)
                /\ v.kind = "list" => \A j \in 1..Len(v.items) : Fine(v.items[j])

\* C3 as stated: within one expandLookups call no table is requested more
\* than once.
C3_OneFetchPerTable ==
  pc = "expand" => \A t \in TableIds : sessLog[t] <= 1

\* C3 amended: within one expandLookups call every table is fetched
\* successfully at most once and is never requested again once cached; only
\* a failed fetch is repeated, once for each further reference key into the
\* table; the request counter is the number of table fetches started.
C3_OneSuccessfulFetchPerTable ==
  pc = "expand" =>
    /\ requestCount = sessLog["t1"] + sessLog["t2"]
    /\ \A t \in TableIds :
         sessLog[t] = FailedFetches(t)
                        + (IF \/ t \in DOMAIN tableCache
                              \/ fetching # << >> /\ fetching[1].tableId = t
                           THEN 1 ELSE 0)
    /\ \A t \in TableIds :
         ~(t \in DOMAIN tableCache /\ fetching # << >> /\ fetching[1].tableId = t)

\* a table whose first fetch failed was requested again and is now cached
C3_Refetched ==
  /\ pc = "expand"
  /\ \E t \in TableIds : sessLog[t] = 2 /\ t \in DOMAIN tableCache

\* C4: during one load no table is fetched twice unless a request failed,
\* whatever the number of rows and queries.
C4_TableFetchedOncePerLoad ==
  failures = 0 => \A t \in TableIds : netLog[t] <= 1

\* C5: processedRefs is empty when the expansion of a top-level row starts,
\* and a row the server has, referenced directly by two top-level rows whose
\* expansion raised no error and fetched without failure, is expanded in the
\* output of both.
C5_VisitedClearedPerRow ==
  pc = "expand" =>
    /\ (Len(stack) = 1 /\ stack[1] = Frame(rows[ri], 0)) => processedRefs = {}
    /\ \A i, j \in (1..Len(expandedRows)) \ raised :
         i # j =>
           \A R \in DirectRefs(rows[i].values) \cap DirectRefs(rows[j].values) :
             Resolvable(R) /\ RefKey(R) \notin failedKeys
               => /\ Embeds(expandedRows[i].values, RefKey(R))
                  /\ Embeds(expandedRows[j].values, RefKey(R))

\* both top-level rows reference b1 and both outputs hold b1 expanded
C5_BothExpanded ==
  /\ pc = "expand"
  /\ Len(expandedRows) = 2
  /\ Ref("t2", "b1") \in DirectRefs(rows[1].values) \cap DirectRefs(rows[2].values)
  /\ Embeds(expandedRows[1].values, <<"t2", "b1">>)
  /\ Embeds(expandedRows[2].values, <<"t2", "b1">>)

\* C6: with maxLookupDepth <= 0 no table is ever requested and no expansion
\* runs, and every stored row holds the references of the fetched row, in
\* order and without embedded values.
C6_ZeroDepthNoExpansion ==
  maxLookupDepth <= 0 =>
    /\ \A t \in TableIds : netLog[t] = 0
    /\ fetching = << >>
    /\ requestCount = 0
    /\ pc # "expand"
    /\ \A id \in DOMAIN store :
         /\ NestDepth(store[id].parsed.values) = 0
         /\ RefKeysOf(store[id].parsed.values) = RefKeysOf(server[id].values)

\* a load at depth 0 ended and stored a row that holds references
C6_StoredWithReferences ==
  /\ maxLookupDepth = 0
  /\ pc = "done"
  /\ \E id \in DOMAIN store : Len(RefKeysOf(store[id].parsed.values)) >= 2

\* C7: for maxLookupDepth = d >= 1 the active calls of expandRowLookups are at
\* depths 0, 1, ..., at most d; a call at depth d never leaves its first
\* entry (it resolves nothing); a table is requested only from a depth below
\* d; and expanded references are nested at most d deep in every output and
\* stored row.
C7_DepthBounded ==
  maxLookupDepth >= 1 =>
    /\ \A j \in 1..Len(stack) :
         /\ stack[j].depth = j - 1
         /\ stack[j].depth <= maxLookupDepth
         /\ stack[j].depth >= maxLookupDepth
              => stack[j] = Frame(stack[j].row, stack[j].depth)
    /\ fetching # << >> => Top.depth < maxLookupDepth
    /\ \A i \in 1..Len(expandedRows) :
         NestDepth(expandedRows[i].values) <= maxLookupDepth
    /\ \A id \in DOMAIN store :
         NestDepth(store[id].parsed.values) <= maxLookupDepth

\* a call at depth maxLookupDepth on a row that holds a reference, which it
\* will leave unresolved
C7_ReferenceAtLimit ==
  /\ pc = "expand"
  /\ maxLookupDepth >= 2
  /\ stack # << >>
  /\ Top.depth = maxLookupDepth
  /\ DirectRefs(Top.row.values) # {}

\* C8: a failed table fetch leaves null in the row-level cache for its key,
\* leaves the reference it was made for unexpanded in the output, does not
\* keep the other references of the batch from being expanded, and is never
\* the error load ends with.
C8_FetchFailureDegrades ==
  /\ pc = "expand" =>
       /\ \A k \in failedKeys : k \in DOMAIN cache /\ cache[k] = Null
       /\ \A p \in failedAt :
            p[1] <= Len(expandedRows)
              => ~IsExpanded(ValueAt(expandedRows[p[1]].values, p[2], p[3]))
       /\ failedKeys # {} =>
            \A i \in (1..Len(expandedRows)) \ raised : DirectRefsExpanded(i)
  /\ pc = "error" => errorMsg \in {"rows", "body", "values"}
  /\ (pc = "error" /\ errorMsg \in {"rows", "body"})
       => Req("rows", PrimaryTable, qi) \in failedReqs /\ stack = << >>
  /\ (pc = "error" /\ errorMsg = "values")
       => si <= Len(processedRows) /\ processedRows[si].values.kind # "map"

\* a load ended well although a table fetch failed for a reference of a
\* top-level row, and another reference was expanded
C8_LoadDoneAfterFailure ==
  /\ pc = "done"
  /\ failedAt # {}
  /\ \E id \in DOMAIN store : NestDepth(store[id].parsed.values) >= 1

\* C9: expandedRows holds one row for each input row taken so far, in input
\* order: the input row itself when its expansion raised, else the input row
\* with references expanded in place; rows after a row that raised are
\* expanded all the same; the list returned has the length of the input.
C9_BatchBestEffort ==
  /\ pc = "expand" =>
       /\ Len(expandedRows) = ri - 1
       /\ ri <= Len(rows) + 1
       /\ \A i \in 1..Len(expandedRows) :
            IF i \in raised
            THEN expandedRows[i] = rows[i]
            ELSE /\ expandedRows[i].id = rows[i].id
                 /\ Strip(expandedRows[i].values) = rows[i].values
                 /\ DirectRefsExpanded(i)
  /\ (pc = "store" /\ maxLookupDepth > 0) =>
       /\ Len(processedRows) = Len(rows)
       /\ processedRows = expandedRows

\* the first row raised and the second came out expanded
C9_ExpandedAfterRaise ==
  /\ pc = "store"
  /\ 1 \in raised
  /\ Len(processedRows) = 2
  /\ processedRows[1] = rows[1]
  /\ NestDepth(processedRows[2].values) >= 1

\* C10: every call of expandLookups returns, cyclic and self-referencing
\* rows included, when every request is answered or fails.
C10_ExpandAllTerminates == (pc = "expand") ~> (pc = "store")

\* expandLookups returned on the cycle a1 -> b1 -> a1, with b1 and a1 expanded
C10_CycleReturned ==
  /\ CycleWorld
  /\ pc = "store"
  /\ maxLookupDepth = MaxDepth
  /\ Len(processedRows) >= 1
  /\ Embeds(processedRows[1].values, <<PrimaryTable, "a1">>)

\* the ids of the rows the server holds in table t, over all its pages
ServerIds(t) ==
  UNION { {ServerPages(server, t)[p][i].id : i \in 1..Len(ServerPages(server, t)[p])} :
          p \in 1..Len(ServerPages(server, t)) }

\* C11: the table-level cache never holds a partial table: an entry holds
\* every row of every page of its table, a table is not cached while a page
\* of it is awaited, and a table one of whose page requests failed is cached
\* only if it was requested anew from its first page and fetched in full.
C11_NoPartialTable ==
  /\ \A t \in DOMAIN tableCache :
       /\ DOMAIN tableCache[t] = ServerIds(t)
       /\ \A r \in ServerIds(t) : tableCache[t][r].id = r
  /\ fetching # << >> => fetching[1].tableId \notin DOMAIN tableCache
  /\ pc = "expand" =>
       \A t \in TableIds :
         (\E q \in failedReqs : q.kind = "table" /\ q.table = t) /\ t \in DOMAIN tableCache
           => netLog[t] >= 2

\* the request for the second page of table t1 failed after the first page
\* was read, and t1 is not in the table-level cache
C11_SecondPageFailed ==
  /\ pc = "expand"
  /\ Req("table", "t1", 2) \in failedReqs
  /\ "t1" \notin DOMAIN tableCache
  /\ fetching = << >>

\* the requests for pages of referenced tables, in the order they were sent
TableReqs == SelectSeq(reqLog, LAMBDA q : q.kind = "table")

\* the page a table request asks for
PageOf(q) == IF q.arg = 0 THEN 1 ELSE q.arg

\* the row with id r on the last page of table t that holds one
LatestRow(t, r) ==
  LET pages == ServerPages(server, t)
      Holds(p) == \E i \in 1..Len(pages[p]) : pages[p][i].id = r
      last == CHOOSE p \in 1..Len(pages) :
                Holds(p) /\ \A p2 \in (p + 1)..Len(pages) : ~Holds(p2)
  IN pages[last][CHOOSE i \in 1..Len(pages[last]) :
                   /\ pages[last][i].id = r
                   /\ \A j \in (i + 1)..Len(pages[last]) : pages[last][j].id # r]

\* what C12 says of every state: a table request either starts a fetch
\* without a token or follows a request to the same table and passes the
\* token its response carried; a fetch that returned cached exactly the rows
\* of all pages by id, the row of the later page for a repeated id
PagesFollowed ==
  /\ \A k \in 1..Len(TableReqs) :
       \/ TableReqs[k].arg = 0
       \/ /\ k > 1
          /\ TableReqs[k - 1].table = TableReqs[k].table
          /\ TableReqs[k].arg =
               NextPageToken(PageOf(TableReqs[k - 1]),
                             ServerPages(server, TableReqs[k].table))
  /\ \A t \in DOMAIN tableCache :
       /\ DOMAIN tableCache[t] = ServerIds(t)
       /\ \A r \in ServerIds(t) : tableCache[t][r] = LatestRow(t, r)

\* C12: fetchTableData requests page after page, passing each response's
\* token, and returns the map of the rows of all pages by id, the later page
\* winning for a repeated id; as the server's pages end, every fetch ends.
C12_FetchTablePaginates ==
  /\ []PagesFollowed
  /\ (fetching # << >>) ~> (fetching = << >>)

\* table t2 came in two pages with an older copy of b1 on the first, and the
\* cache holds the b1 of the second page
C12_LaterPageWon ==
  /\ "b1old" \in DOMAIN server
  /\ server["b1old"] # server["b1"]
  /\ "t2" \in DOMAIN tableCache
  /\ tableCache["t2"]["b1"] = server["b1"]
  /\ \E k \in 1..Len(reqLog) : reqLog[k] = Req("table", "t2", 2)

\* the requests sent and not yet answered or failed
Outstanding == Len(reqLog) - settled

\* the references of the entries and array items that the call of frame f
\* has gone past
EarlierRefs(f) ==
  IF f.row.values.kind # "map" THEN {}
  ELSE LET cols == f.row.values.cols
           RefsOf(v, upto) ==
             CASE v.kind = "ref" -> {v}
               [] v.kind = "list" ->
                    {v.items[j] : j \in {j \in 1..upto : v.items[j].kind = "ref"}}
               [] OTHER -> {}
       IN UNION { RefsOf(cols[c], IF cols[c].kind = "list" THEN Len(cols[c].items) ELSE 0) :
                  c \in 1..(f.ci - 1) }
          \cup (IF f.ci <= Len(cols) /\ cols[f.ci].kind = "list"
                THEN RefsOf(cols[f.ci], f.ii - 1) ELSE {})

\* C13: load never has more than one request unanswered; the rows before
\* row ri are finished and only row ri is being expanded; every call but the
\* innermost waits at the reference whose row the next call expands, and a
\* fetch in progress is the one the innermost call waits for; every
\* reference a call has gone past left its key in the row-level cache or its
\* table in the table-level cache, for the later references to find.
C13_Sequential ==
  /\ Outstanding <= 1
  /\ pc \in {"columns", "primary"} => Outstanding = 1 /\ stack = << >> /\ fetching = << >>
  /\ pc = "expand" =>
       /\ Outstanding = Len(fetching)
       /\ Len(expandedRows) = ri - 1
       /\ stack # << >> => ri <= Len(rows) /\ stack[1].row = rows[ri]
       /\ \A j \in 1..(Len(stack) - 1) :
            /\ AtRef(stack[j])
            /\ stack[j + 1].row.id = CurRef(stack[j]).rowId
       /\ fetching # << >> =>
            /\ stack # << >>
            /\ AtRef(Top)
            /\ CurRef(Top).tableId = fetching[1].tableId
       /\ \A j \in 1..Len(stack) :
            \A R \in EarlierRefs(stack[j]) :
              RefKey(R) \in DOMAIN cache \/ R.tableId \in DOMAIN tableCache

\* in the first row, a reference is about to be resolved into a table that
\* an earlier reference of the same row had fetched
C13_LaterSeesCache ==
  /\ pc = "expand"
  /\ ri = 1
  /\ Len(stack) = 1
  /\ fetching = << >>
  /\ AtRef(Top)
  /\ CurRef(Top).tableId \in DOMAIN tableCache
  /\ \E R \in EarlierRefs(Top) :
       R.tableId = CurRef(Top).tableId /\ RefKey(R) # RefKey(CurRef(Top))

\* what C14 says of a step that calls the host framework: it handles the
\* row at position si of the current query, which is the si-th fetched row with
\* references expanded; it calls parseData once and then store.set, both with
\* the row's id; the entry set is what parseData returned for the row with
\* its values normalized and then, when cleanStrings is on, cleaned; no other
\* entry of the store changes
StoresPipelineResult ==
  LET row == processedRows[si]
      fetched == QueryResult(server, qi)[si]
      normalized == NormalizeEmptyToObject(row.values, columnTypesCache)
      expected == IF cleanStrings THEN CleanValues(normalized) ELSE normalized
  IN /\ pc = "store" /\ si <= Len(processedRows)
     /\ row.id = fetched.id
     /\ Strip(row.values) = fetched.values
     /\ hookLog' = hookLog \o <<Call("parseData", row.id), Call("set", row.id)>>
     /\ DOMAIN store' = DOMAIN store \cup {row.id}
     /\ store'[row.id] = ParseData(row.id, [row EXCEPT !.values = expected])
     /\ \A id \in DOMAIN store \ {row.id} : store'[id] = store[id]
     /\ si' = si + 1

\* C14: every row load stores is the parse hook's result for the fetched
\* row expanded, normalized and sanitized (sanitized only when cleanStrings is
\* on); parseData is called once per row and before store.set, store.set
\* takes the row's id, rows are stored in fetch order, and the store changes
\* in no other step.
C14_PipelineThenStore ==
  [][/\ hookLog' # hookLog => StoresPipelineResult
     /\ store' # store => hookLog' # hookLog]_vars

\* a load with cleanStrings off and no column types ended, and the wrapped
\* string of row a2 is stored as it was fetched
C14_StoredUncleaned ==
  /\ pc = "done"
  /\ ~cleanStrings
  /\ Len(hookLog) >= 4
  /\ "a2" \in DOMAIN store
  /\ store["a2"].parsed.values.cols[1] = Wrapped

\* C15: once codaLoader has run with the token, the doc id or the table
\* id/name absent, it has raised the configuration error of the first one
\* absent, no request was ever sent, and neither load nor schema has run.
C15_ConfigErrorBeforeRequests ==
  (pc # "new" /\ ~(token /\ docId /\ tableIdOrName)) =>
    /\ pc = "error"
    /\ errorMsg = (IF ~token THEN "token" ELSE IF ~docId THEN "docId" ELSE "tableIdOrName")
    /\ reqLog = << >>
    /\ settled = 0
    /\ spc = "idle"
    /\ store = EmptyMap

\* codaLoader was called without a doc id, with token and table present, and
\* raised the error for the doc id
C15_MissingDocId ==
  /\ token /\ ~docId /\ tableIdOrName
  /\ pc = "error"
  /\ errorMsg = "docId"

\* C16: once a primary rows request has answered with a non-success status,
\* load has ended with an error whose message carries that status.
C16_RowsErrorCarriesStatus ==
  (\E q \in failedReqs : q.kind = "rows") => pc = "error" /\ errorMsg = "rows"

\* C17 as stated: once the columns request of load has failed, load does not
\* end well.
C17_ColumnsFailureFatal ==
  Req("columns", PrimaryTable, 0) \in failedReqs => pc # "done"

\* C17 amended: once the columns request of load has failed, load goes on
\* without column types: it sends its rows requests, an error it ends with
\* comes from a failed rows request or from a row without values and never
\* from the columns request, and every row it stores holds the fetched values
\* not normalized (references expanded as the depth allows).
C17_ColumnsFailureTolerated ==
  Req("columns", PrimaryTable, 0) \in failedReqs =>
    /\ columnTypesCache = << >>
    /\ pc \in {"primary", "expand", "store", "done", "error"}
    /\ nQueries >= 1 => \E k \in 1..Len(reqLog) : reqLog[k].kind = "rows"
    /\ pc = "error" =>
         \/ errorMsg \in {"rows", "body"} /\ Req("rows", PrimaryTable, qi) \in failedReqs
         \/ errorMsg = "values" /\ processedRows[si].values.kind # "map"
    /\ \A id \in DOMAIN store : Strip(store[id].parsed.values) = server[id].values

\* load ended well after its columns request failed, and a stored row holds
\* a single reference where normalization would have put a list
C17_DoneWithoutColumnTypes ==
  /\ Req("columns", PrimaryTable, 0) \in failedReqs
  /\ pc = "done"
  /\ \E id \in DOMAIN store : store[id].parsed.values.cols[1].kind = "ref"

\* C18: once the columns request of schema has failed, schema has returned,
\* and what it returned is the base row schema with values open to any
\* mapping; schema returns the open schema in no other case, and the failure
\* is not an error of the loader.
C18_SchemaFallsBackOpen ==
  /\ Req("schema", PrimaryTable, 0) \in failedReqs
       => spc = "returned" /\ schemaResult = "open"
  /\ schemaResult = "open" => Req("schema", PrimaryTable, 0) \in failedReqs
  /\ spc = "returned" => schemaResult \in {"typed", "open"}
  /\ pc = "error" => errorMsg \in {"token", "docId", "tableIdOrName", "rows", "body", "values"}

\* schema returned the open schema after its columns request failed, and
\* load ran to its end beside it
C18_OpenSchemaReturned ==
  /\ spc = "returned"
  /\ schemaResult = "open"
  /\ Req("schema", PrimaryTable, 0) \in failedReqs
  /\ pc = "done"

\* the primary rows requests sent so far, in order
RowsReqs == SelectSeq(reqLog, LAMBDA q : q.kind = "rows")

\* the ids of the rows that the queries 1..n return
ReturnedIds(n) ==
  UNION { {QueryResult(server, q)[i].id : i \in 1..Len(QueryResult(server, q))} :
          q \in 1..n }

\* C19: the rows requests are sent one per query string, in the order of
\* the strings and none twice; a load that ends well has sent one for each
\* string (none for an empty list), holds in the store exactly the rows its
\* queries returned, by row id, and for a row of the last query, also when
\* an earlier query returned it, the data made from the last query's row.
C19_OneRequestPerValue ==
  /\ Len(RowsReqs) <= nQueries
  /\ \A k \in 1..Len(RowsReqs) : RowsReqs[k] = Req("rows", PrimaryTable, k)
  /\ pc = "done" =>
       /\ Len(RowsReqs) = nQueries
       /\ DOMAIN store = ReturnedIds(nQueries)
       /\ nQueries >= 1 =>
            \A i \in 1..Len(processedRows) :
              LET row == processedRows[i]
                  normalized == NormalizeEmptyToObject(row.values, columnTypesCache)
                  expected == IF cleanStrings THEN CleanValues(normalized) ELSE normalized
              IN /\ row.id = QueryResult(server, nQueries)[i].id
                 /\ store[row.id] = ParseData(row.id, [row EXCEPT !.values = expected])

\* a load of two queries ended well; both returned row a2, the first while
\* the fetch of the table it references failed, and the store holds a2 with
\* the reference expanded, as the second query made it
C19_LastQueryWon ==
  /\ pc = "done"
  /\ nQueries = 2
  /\ Req("table", "t2", 0) \in failedReqs
  /\ netLog["t2"] = 2
  /\ DirectRefs(server["a1"].values) = {}
  /\ NestDepth(store["a2"].parsed.values) >= 1

\* C20: normalizeEmptyToObject is idempotent: applied to its own result,
\* with the same column types, it returns that result unchanged.
C20_NormalizeIdempotent ==
  [][normPasses >= 1 => normOut' = normOut]_vars

\* a mapping that the first pass changed has been normalized a second time
C20_NormalizedTwice ==
  /\ normPasses = 2
  /\ normOut # normValues
  /\ normTypes = <<"lookup">>
  /\ normValues.cols[1] = Ref("t2", "b1")

\* ------------------------------------------------- the normalization table

\* the cell of the typed column before normalization, and after
NormCellIn == normValues.cols[1]
NormCellOut == normOut.cols[1]

\* the upper-case form of the letters of "true" and "false"
UpperCase(c) ==
  CASE c = "t" -> "T" [] c = "r" -> "R" [] c = "u" -> "U" [] c = "e" -> "E"
    [] c = "f" -> "F" [] c = "a" -> "A" [] c = "l" -> "L" [] c = "s" -> "S"

\* string s spells the lower-case word w, in any mix of cases
EqualsIgnoringCase(s, w) ==
  /\ Len(s) = Len(w)
  /\ \A i \in 1..Len(w) : s[i] \in {w[i], UpperCase(w[i])}

\* C21: a cell of a column declared boolean or checkbox: a string equal to
\* "true" ignoring case normalizes to true, one equal to "false" ignoring
\* case to false, every other string to null; a boolean passes through; null
\* and every value of another type normalize to null.
C21_BooleanCells ==
  (normPasses >= 1 /\ normTypes[1] \in {"boolean", "checkbox"}) =>
    CASE NormCellIn.kind = "bool" -> NormCellOut = NormCellIn
      [] NormCellIn.kind = "str" ->
           IF EqualsIgnoringCase(NormCellIn.s, <<"t", "r", "u", "e">>)
           THEN NormCellOut = [kind |-> "bool", b |-> TRUE]
           ELSE IF EqualsIgnoringCase(NormCellIn.s, <<"f", "a", "l", "s", "e">>)
           THEN NormCellOut = [kind |-> "bool", b |-> FALSE]
           ELSE NormCellOut = [kind |-> "null"]
      [] OTHER -> NormCellOut = [kind |-> "null"]

\* the string "TRUE" of a checkbox column has been normalized once
C21_UpperCaseTrue ==
  /\ normPasses = 1
  /\ normTypes[1] = "checkbox"
  /\ NormCellIn = Str(<<"T", "R", "U", "E">>)
  /\ NormCellOut = Bool(TRUE)

\* C22: a cell of a column declared number, slider or currency normalizes
\* to a number that is not NaN: a number passes through, a numeric string
\* becomes its number, and a non-numeric string, an empty string, null and
\* a value of any other type become 0.
C22_NumberCells ==
  (normPasses >= 1 /\ normTypes[1] \in {"number", "slider", "currency"}) =>
    /\ NormCellOut.kind = "num"
    /\ DOMAIN NormCellOut = {"kind", "n"}
    /\ NormCellOut.n \in Nat
    /\ CASE NormCellIn.kind = "num" -> NormCellOut = NormCellIn
         [] NormCellIn = Str(<<"1", "2">>) -> NormCellOut.n = 12
         [] NormCellIn = Str(<<" ", "7", " ">>) -> NormCellOut.n = 7
         [] OTHER -> NormCellOut.n = 0

\* the string "ab" of a currency column has been normalized once
C22_NonNumericString ==
  /\ normPasses = 1
  /\ normTypes[1] = "currency"
  /\ NormCellIn = Str(<<"a", "b">>)
  /\ NormCellOut = Num(0)

\* the cell is null, missing or the empty string
NoContent(v) == v.kind \in {"null", "undefined"} \/ (v.kind = "str" /\ v.s = << >>)

\* C23: a present cell of a column declared link: null or the empty string
\* gives the WebPage object with url "", a non-empty string s the WebPage
\* object with url s, anything else is unchanged; declared person: the same
\* with a Person object and its name; declared image: a list is unchanged,
\* null or the empty string gives [], a single ImageObject gives the list
\* holding it, anything else gives []; declared lookup: the same as image
\* with a row reference.
C23_ObjectAndListCells ==
  normPasses >= 1 =>
    CASE normTypes[1] = "link" ->
           IF NoContent(NormCellIn) THEN NormCellOut = [kind |-> "webpage", url |-> << >>]
           ELSE IF NormCellIn.kind = "str"
           THEN NormCellOut = [kind |-> "webpage", url |-> NormCellIn.s]
           ELSE NormCellOut = NormCellIn
      [] normTypes[1] = "person" ->
           IF NoContent(NormCellIn) THEN NormCellOut = [kind |-> "person", name |-> << >>]
           ELSE IF NormCellIn.kind = "str"
           THEN NormCellOut = [kind |-> "person", name |-> NormCellIn.s]
           ELSE NormCellOut = NormCellIn
      [] normTypes[1] = "image" ->
           IF NormCellIn.kind = "list" THEN NormCellOut = NormCellIn
           ELSE IF NormCellIn.kind = "image"
           THEN NormCellOut = [kind |-> "list", items |-> <<NormCellIn>>]
           ELSE NormCellOut = [kind |-> "list", items |-> << >>]
      [] normTypes[1] = "lookup" ->
           IF NormCellIn.kind = "list" THEN NormCellOut = NormCellIn
           ELSE IF NormCellIn.kind = "ref"
           THEN NormCellOut = [kind |-> "list", items |-> <<NormCellIn>>]
           ELSE NormCellOut = [kind |-> "list", items |-> << >>]
      [] OTHER -> TRUE

\* an empty cell of a link column has become the WebPage object without url
C23_EmptyLinkWrapped ==
  /\ normPasses = 1
  /\ normTypes[1] = "link"
  /\ NormCellIn = Empty
  /\ NormCellOut = WebPage(<< >>)

\* C24: normalizeEmptyToObject raises for no input: its result is a values
\* object with exactly the keys of its input, whatever the column types,
\* also when the table has a column the row has no cell of; the value of a
\* key whose column has no known type, or a type outside the normalization
\* table, is unchanged.
C24_NormalizeTotal ==
  normPasses >= 1 =>
    /\ normOut.kind = "map"
    /\ DOMAIN normOut.cols = DOMAIN normValues.cols
    /\ \A i \in DOMAIN normOut.cols :
         /\ normOut.cols[i].kind \in
              {"null", "str", "num", "bool", "list", "map", "ref", "webpage", "person",
               "image", "object", "undefined"}
         /\ (i \notin DOMAIN normTypes \/ normTypes[i] \in {"", "text"}) =>
              normOut.cols[i] = normValues.cols[i]

\* a row without a cell of the table's third column has been normalized: the
\* string of its image column has become [] and the reference of its
\* untyped second column is kept
C24_MalformedCellNormalized ==
  /\ normPasses = 1
  /\ normTypes = <<"image", "", "link">>
  /\ NormCellIn = Str(<<"a", "b">>)
  /\ normOut = VMap(<<List(<< >>), Ref("t2", "b1")>>)

\* ----------------------------------------------------------- the sanitizer

\* the string begins with a triple backtick and ends with another one
FullyWrapped(s) ==
  /\ Len(s) >= 6
  /\ SubSeq(s, 1, 3) = <<"bt", "bt", "bt">>
  /\ SubSeq(s, Len(s) - 2, Len(s)) = <<"bt", "bt", "bt">>

\* what is between the two markers
Inner(s) == [i \in 1..(Len(s) - 6) |-> s[i + 3]]

\* C25: sanitizing a string returns its inner content exactly when the
\* whole string begins with a triple backtick and ends with a separate
\* triple backtick (newlines allowed inside), one wrapper layer removed
\* only; every other string is returned unchanged.
C25_CleanStringUnwrapsOnce ==
  [][cleanPasses' = cleanPasses + 1 =>
       \A i \in DOMAIN cleanOut.cols :
         cleanOut.cols[i].kind = "str" =>
           /\ cleanOut'.cols[i].kind = "str"
           /\ cleanOut'.cols[i].s =
                IF FullyWrapped(cleanOut.cols[i].s)
                THEN Inner(cleanOut.cols[i].s)
                ELSE cleanOut.cols[i].s]_vars

\* a string wrapped twice has lost one of its two wrappers
C25_OneLayerRemoved ==
  /\ cleanPasses = 1
  /\ cleanIn.cols[1] =
       Str(<<"bt", "bt", "bt", "bt", "bt", "bt", "h", "i", "bt", "bt", "bt", "bt", "bt", "bt">>)
  /\ cleanOut.cols[1] = Str(<<"bt", "bt", "bt", "h", "i", "bt", "bt", "bt">>)

\* value b is value a with every string leaf sanitized and nothing else
\* changed
RECURSIVE SanitizedCopy(_, _)
SanitizedCopy(a, b) ==
  /\ b.kind = a.kind
  /\ DOMAIN b = DOMAIN a
  /\ CASE a.kind = "str" -> b.s = IF FullyWrapped(a.s) THEN Inner(a.s) ELSE a.s
       [] a.kind = "webpage" -> b.url = IF FullyWrapped(a.url) THEN Inner(a.url) ELSE a.url
       [] a.kind = "person" -> b.name = IF FullyWrapped(a.name) THEN Inner(a.name) ELSE a.name
       [] a.kind = "list" ->
            /\ Len(b.items) = Len(a.items)
            /\ \A i \in 1..Len(a.items) : SanitizedCopy(a.items[i], b.items[i])
       [] a.kind = "map" ->
            /\ DOMAIN b.cols = DOMAIN a.cols
            /\ \A i \in DOMAIN a.cols : SanitizedCopy(a.cols[i], b.cols[i])
       [] a.kind = "ref" ->
            /\ b.tableId = a.tableId
            /\ b.rowId = a.rowId
            /\ "values" \in DOMAIN a =>
                 /\ b.values.id = a.values.id
                 /\ SanitizedCopy(a.values.values, b.values.values)
       [] OTHER -> b = a

\* C26: cleanValues preserves the structure of its argument: the same keys
\* at every mapping, the same length and item order at every list, numbers,
\* booleans and null unchanged; only string leaves change, sanitized at
\* every depth, also inside the embedded values of expanded references.
C26_CleanValuesKeepsStructure ==
  [][cleanPasses' = cleanPasses + 1 => SanitizedCopy(cleanOut, cleanOut')]_vars

\* the string inside an expanded reference that is embedded in an expanded
\* reference has been sanitized
C26_NestedStringCleaned ==
  /\ cleanPasses = 1
  /\ cleanIn.cols[1].kind = "ref"
  /\ cleanOut.cols[1] =
       ExpandedRef(Ref("t2", "b1"),
                   Row("b1", VMap(<<ExpandedRef(Ref("t2", "b2"),
                                                Row("b2", VMap(<<Str(<<"h">>)>>)))>>)))
  /\ cleanOut # cleanIn

\* ------------------------------------------------------- schema inference

\* the formula of the column holds a call of Hyperlink
HasHyperlinkFormula ==
  /\ zodColumn.formula.kind = "str"
  /\ \E i \in 1..Len(zodColumn.formula.s) :
       /\ i + 9 <= Len(zodColumn.formula.s)
       /\ [j \in 1..10 |-> zodColumn.formula.s[i + j - 1]]
            = <<"H", "y", "p", "e", "r", "l", "i", "n", "k", "(">>

\* the shape the claim gives a column type
ShapeOfType(type) ==
  CASE type \in {"number", "slider", "currency"} -> [zod |-> "number"]
    [] type \in {"boolean", "checkbox"} ->
         [zod |-> "union", of |-> <<[zod |-> "boolean"], [zod |-> "null"]>>]
    [] type \in {"text", "date", "datetime", "time", "select"} -> [zod |-> "string"]
    [] type = "image" -> [zod |-> "array", of |-> [zod |-> "imageObject"]]
    [] type = "link" -> [zod |-> "webPage"]
    [] type = "person" -> [zod |-> "person"]
    [] type = "lookup" -> [zod |-> "array", of |-> [zod |-> "rowReference"]]
    [] OTHER -> [zod |-> "any"]

\* C27: codaFormatToZodType maps a column by format.type: number, slider,
\* currency to number; boolean, checkbox to boolean or null; text, date,
\* datetime, time, select to string; image to a list of ImageObject; link to
\* a WebPage object; person to a Person object; lookup to a list of row
\* references; every other type to any.  A column whose formula holds a call
\* of Hyperlink maps to string or WebPage whatever its type, and a column
\* declared isArray of a type other than image and lookup accepts an empty
\* list or a list of its base shape.
C27_ZodTypeByColumn ==
  zodType # Null =>
    zodType =
      IF HasHyperlinkFormula
      THEN [zod |-> "union", of |-> <<[zod |-> "string"], [zod |-> "webPage"]>>]
      ELSE IF zodColumn.format.isArray /\ zodColumn.format.type \notin {"image", "lookup"}
      THEN [zod |-> "union",
            of |-> <<[zod |-> "array", of |-> [zod |-> "never"]],
                     [zod |-> "array", of |-> ShapeOfType(zodColumn.format.type)]>>]
      ELSE ShapeOfType(zodColumn.format.type)

\* an array column of numbers whose formula calls Hyperlink inside another
\* call has got the type string or WebPage
C27_HyperlinkColumn ==
  /\ zodColumn.format = [type |-> "number", isArray |-> TRUE]
  /\ zodColumn.formula.kind = "str"
  /\ Len(zodColumn.formula.s) > 12
  /\ zodType = ZUnion(<<ZString, ZWebPage>>)

\* ---------------------------------------------------------- column helpers

\* the name consists of letters outside ASCII
NonAsciiName(name) ==
  name # << >> /\ \A i \in 1..Len(name) : name[i] \in {"ta", "su", "ku", "tan", "tou", "sha"}

\* C28: for columns with distinct ids the COLUMNS object holds one constant
\* per column id, each under a property name derived from its column name
\* (a name of letters outside ASCII is kept as the property), so that the
\* property names of distinct columns are pairwise distinct; a name that is
\* empty after sanitization or starts with a digit gets the prefix "_".
C28_OnePropertyPerColumn ==
  helperOut # Null =>
    /\ Len(helperOut) = Len(helperColumns)
    /\ \A i \in 1..Len(helperOut) :
         /\ helperOut[i].id = helperColumns[i].id
         /\ NonAsciiName(helperColumns[i].name) =>
              helperOut[i].property = helperColumns[i].name
         /\ helperColumns[i].name \in {<< >>, <<"1", "s", "t">>} =>
              helperOut[i].property[1] = "_"
    /\ \A i, j \in 1..Len(helperOut) :
         i # j => helperOut[i].property # helperOut[j].property

\* ------------------------------------------------------ expanded references

\* out is what the reference in may have become: the reference itself, or
\* the reference with its fields and a values field {id, values} of the row
\* it names, whose values are, reference by reference, what they may have
\* become in turn
RECURSIVE ExpansionOf(_, _), ExpandedValuesOf(_, _)
ExpansionOf(in, out) ==
  \/ out = in
  \/ /\ Resolvable(in)
     /\ DOMAIN out = DOMAIN in \cup {"values"}
     /\ \A fld \in DOMAIN in : out[fld] = in[fld]
     /\ DOMAIN out.values = {"id", "values"}
     /\ out.values.id = LatestRow(in.tableId, in.rowId).id
     /\ out.values.id = in.rowId
     /\ ExpandedValuesOf(LatestRow(in.tableId, in.rowId).values, out.values.values)

ExpandedValuesOf(in, out) ==
  IF in.kind # "map" THEN out = in
  ELSE /\ out.kind = "map"
       /\ DOMAIN out.cols = DOMAIN in.cols
       /\ \A c \in DOMAIN in.cols :
            CASE in.cols[c].kind = "ref" -> ExpansionOf(in.cols[c], out.cols[c])
              [] in.cols[c].kind = "list" ->
                   /\ out.cols[c].kind = "list"
                   /\ DOMAIN out.cols[c].items = DOMAIN in.cols[c].items
                   /\ \A j \in DOMAIN in.cols[c].items :
                        IF in.cols[c].items[j].kind = "ref"
                        THEN ExpansionOf(in.cols[c].items[j], out.cols[c].items[j])
                        ELSE out.cols[c].items[j] = in.cols[c].items[j]
              [] OTHER -> out.cols[c] = in.cols[c]

\* the values a finished call of expandRowLookups returns
Returned(f) ==
  IF maxLookupDepth <= 0 \/ f.depth >= maxLookupDepth THEN f.row.values
  ELSE [kind |-> "map", cols |-> f.ev]

\* C29: when a reference resolves, the output value is the reference with
\* all its fields and a values field {id, values} holding the id and the
\* recursively expanded values of the referenced row; when it does not
\* resolve (row missing, fetch failure, cycle suppression) the output value
\* is the input reference, unchanged.
C29_ResolvedOrUnchanged ==
  /\ [](pc = "expand" =>
          \A i \in 1..Len(expandedRows) :
            /\ ExpandedValuesOf(rows[i].values, expandedRows[i].values)
            /\ rows[i].values.kind = "map" =>
                 \A c \in 1..Len(rows[i].values.cols) :
                   (rows[i].values.cols[c].kind = "ref"
                      /\ (~Resolvable(rows[i].values.cols[c]) \/ <<i, c, 0>> \in failedAt))
                     => expandedRows[i].values.cols[c] = rows[i].values.cols[c])
  /\ [][(stack # << >> /\ stack' # << >>) =>
          /\ \* the call for the referenced row returns: the reference resolved
             (Len(stack') = Len(stack) - 1 /\ CurValue(stack[Len(stack')]).kind = "ref") =>
               LET parent == stack[Len(stack')]
                   in == CurValue(parent)
               IN stack'[Len(stack')].ev[parent.ci] =
                    [kind |-> "ref", tableId |-> in.tableId, rowId |-> in.rowId,
                     values |-> [id |-> Top.row.id, values |-> Returned(Top)]]
          /\ \* the entry is left without a deeper call: null was returned
             (Len(stack') = Len(stack) /\ InLoop(Top) /\ CurValue(Top).kind = "ref"
                /\ stack'[Len(stack)].ci = Top.ci + 1) =>
               stack'[Len(stack)].ev[Top.ci] = CurValue(Top)]_vars

\* the output of the first top-level row holds its reference to b1 expanded,
\* with a further reference expanded inside the embedded values
C29_NestedExpansion ==
  /\ pc = "expand"
  /\ Len(expandedRows) >= 1
  /\ rows[1].values.cols[1] = Ref("t2", "b1")
  /\ NestDepth(expandedRows[1].values.cols[1]) >= 2
  /\ failedAt = {}

\* C30: for a list value the output list has the length and item order of
\* the input list; items that are no references and references that did not
\* resolve are the input items, only resolved references are replaced by
\* their expanded form; when no item was expanded the output value is the
\* original list.
C30_ListItemsInPlace ==
  /\ [](pc = "expand" =>
          \A i \in 1..Len(expandedRows) :
            rows[i].values.kind = "map" =>
              \A c \in 1..Len(rows[i].values.cols) :
                LET in == rows[i].values.cols[c]
                    out == expandedRows[i].values.cols[c]
                IN in.kind = "list" =>
                     /\ out.kind = "list"
                     /\ Len(out.items) = Len(in.items)
                     /\ \A j \in 1..Len(in.items) :
                          /\ in.items[j].kind # "ref" => out.items[j] = in.items[j]
                          /\ in.items[j].kind = "ref" =>
                               /\ out.items[j].kind = "ref"
                               /\ out.items[j].tableId = in.items[j].tableId
                               /\ out.items[j].rowId = in.items[j].rowId
                               /\ "values" \notin DOMAIN out.items[j] =>
                                    out.items[j] = in.items[j]
                               /\ (~Resolvable(in.items[j]) \/ <<i, c, j>> \in failedAt) =>
                                    out.items[j] = in.items[j]
                     /\ (\A j \in 1..Len(out.items) : "values" \notin DOMAIN out.items[j])
                          => out = in)
  /\ [][(stack # << >> /\ stack' # << >>) =>
          /\ \* the call for the referenced row returns: the item resolved
             (Len(stack') = Len(stack) - 1 /\ CurValue(stack[Len(stack')]).kind = "list") =>
               LET parent == stack[Len(stack')]
                   in == CurValue(parent).items[parent.ii]
               IN stack'[Len(stack')].items =
                    parent.items \o
                      <<[kind |-> "ref", tableId |-> in.tableId, rowId |-> in.rowId,
                         values |-> [id |-> Top.row.id, values |-> Returned(Top)]]>>
          /\ \* an item is left without a deeper call: it is pushed as it is
             (Len(stack') = Len(stack) /\ InLoop(Top) /\ CurValue(Top).kind = "list"
                /\ stack'[Len(stack)].ii = Top.ii + 1) =>
               stack'[Len(stack)].items = Top.items \o <<CurValue(Top).items[Top.ii]>>
          /\ \* the end of the list: the entry is replaced if an item was expanded
             (Len(stack') = Len(stack) /\ InLoop(Top) /\ CurValue(Top).kind = "list"
                /\ stack'[Len(stack)].ci = Top.ci + 1) =>
               /\ Len(Top.items) = Len(CurValue(Top).items)
               /\ stack'[Len(stack)].ev[Top.ci] =
                    IF \E j \in 1..Len(Top.items) : "values" \in DOMAIN Top.items[j]
                    THEN [kind |-> "list", items |-> Top.items]
                    ELSE CurValue(Top)]_vars

\* in the output of the first top-level row the number of a list stands
\* where it stood and the reference after it is expanded; the list of the
\* second row is the input list
C30_MixedList ==
  /\ pc = "expand"
  /\ Len(expandedRows) = 2
  /\ rows[1].values.cols[2] = List(<<Num(7), Ref("t2", "b2")>>)
  /\ expandedRows[1].values.cols[2].items[1] = Num(7)
  /\ IsExpanded(expandedRows[1].values.cols[2].items[2])
  /\ expandedRows[2].values = rows[2].values

\* ------------------------------------------------------- resolver and caches

\* expandSingleReference is about to look up a reference not yet processed
Resolving ==
  /\ pc = "expand"
  /\ stack # << >>
  /\ fetching = << >>
  /\ AtRef(Top)
  /\ <<CurRef(Top).tableId, CurRef(Top).rowId>> \notin processedRefs

\* the step returned null to expandRowLookups: the loop moved on, no call
\* for a referenced row was made
ReturnedNull ==
  /\ Len(stack') = Len(stack)
  /\ stack' # stack
  /\ [stack'[Len(stack)] EXCEPT !.ci = 0, !.ii = 0, !.items = << >>]
       = [Top EXCEPT !.ci = 0, !.ii = 0, !.items = << >>]

\* C31: expandSingleReference reads the table-level cache first, then the
\* row-level cache, and fetches the table only when neither has an entry: a
\* reference into a table present in the table-level cache causes no
\* request, and a reference whose row is absent from the fetched table
\* resolves to null, with null recorded for its key in the row-level cache.
C31_LookupOrder ==
  [][Resolving =>
       LET ref == CurRef(Top)
           key == <<ref.tableId, ref.rowId>>
           t == ref.tableId
       IN /\ \* the table is cached and holds the row: the row is taken from it,
             \* whatever the row-level cache holds
             (t \in DOMAIN tableCache /\ ref.rowId \in DOMAIN tableCache[t]) =>
               /\ Len(stack') = Len(stack) + 1
               /\ stack'[Len(stack')].row = tableCache[t][ref.rowId]
               /\ reqLog' = reqLog
          /\ \* the table is cached and lacks the row: null, cached, no request
             (t \in DOMAIN tableCache /\ ref.rowId \notin DOMAIN tableCache[t]) =>
               /\ ReturnedNull
               /\ key \in DOMAIN cache' /\ cache'[key] = [kind |-> "null"]
               /\ reqLog' = reqLog
               /\ tableCache' = tableCache
          /\ \* no table entry but a row-level entry: the entry is used
             (t \notin DOMAIN tableCache /\ key \in DOMAIN cache) =>
               /\ reqLog' = reqLog
               /\ cache' = cache
               /\ cache[key] = [kind |-> "null"] => ReturnedNull
          /\ \* neither has an entry: the table is requested
             (t \notin DOMAIN tableCache /\ key \notin DOMAIN cache) =>
               /\ reqLog' = Append(reqLog, [kind |-> "table", table |-> t, arg |-> 0])
               /\ fetching' # << >>]_vars
  /\ [][(fetching # << >> /\ fetching' = << >> /\ tableCache' # tableCache) =>
         \* the last page of the table has arrived
         LET ref == CurRef(Top)
             t == ref.tableId
         IN /\ t \in DOMAIN tableCache'
            /\ ref.rowId \notin DOMAIN tableCache'[t] =>
                 /\ ReturnedNull
                 /\ cache'[<<t, ref.rowId>>] = [kind |-> "null"]]_vars

\* a reference to b1 is about to be resolved from the table-level cache
\* although the row-level cache holds null for its key, left by a failed
\* fetch
C31_TableCacheFirst ==
  /\ Resolving
  /\ CurRef(Top) = Ref("t2", "b1")
  /\ "t2" \in DOMAIN tableCache
  /\ <<"t2", "b1">> \in DOMAIN cache
  /\ cache[<<"t2", "b1">>] = Null

\* the index in reqLog of the latest rows request, 0 without one: the
\* expandLookups call under way began after it
LastRowsReq ==
  LET is == {i \in DOMAIN reqLog : reqLog[i].kind = "rows"}
  IN IF is = {} THEN 0 ELSE CHOOSE i \in is : \A j \in is : j <= i

\* the table fetches started since, one first-page request each
FetchesStarted ==
  Cardinality({i \in DOMAIN reqLog : /\ i > LastRowsReq
                                     /\ reqLog[i].kind = "table"
                                     /\ reqLog[i].arg = 0})

\* C32: during one expandLookups call context.requestCount never decreases
\* and always equals the number of table fetches started so far in the call:
\* it goes up by one when a table fetch starts, before the first page is
\* requested, and stays as it is when a further page is requested and when
\* the fetch succeeds or fails.
C32_CounterCountsFetches ==
  /\ [](pc = "expand" => requestCount = FetchesStarted)
  /\ [][(pc = "expand" /\ pc' = "expand") =>
         /\ requestCount' >= requestCount
         /\ requestCount' = requestCount + 1 <=>
              (fetching = << >> /\ fetching' # << >>)
         /\ requestCount' # requestCount =>
              reqLog' = Append(reqLog, Req("table", fetching'[1].tableId, 0))
         /\ fetching # << >> => requestCount' = requestCount]_vars

\* two table fetches were started, one of them failed, and a second page
\* was requested: the counter is 2 and the session made three page requests
C32_FetchesNotPages ==
  /\ pc = "expand"
  /\ requestCount = 2
  /\ \E q \in failedReqs : q.kind = "table"
  /\ Cardinality({i \in DOMAIN reqLog : i > LastRowsReq /\ reqLog[i].kind = "table"})
       > requestCount

\* how many expanded references to key the value holds, at any nesting
RECURSIVE Expansions(_, _), ExpansionsFrom(_, _, _)
Expansions(v, key) ==
  CASE v.kind = "ref" ->
         IF IsExpanded(v)
         THEN (IF RefKey(v) = key THEN 1 ELSE 0) + Expansions(v.values.values, key)
         ELSE 0
    [] v.kind = "list" -> ExpansionsFrom(v.items, 1, key)
    [] v.kind = "map" -> ExpansionsFrom(v.cols, 1, key)
    [] OTHER -> 0

ExpansionsFrom(seq, i, key) ==
  IF i > Len(seq) THEN 0
  ELSE Expansions(seq[i], key) + ExpansionsFrom(seq, i + 1, key)

\* every key a reference on the server or in the input can name
AllKeys == UNION { {<<t, r>> : r \in ServerIds(t) \cup {"x"}} : t \in TableIds }

\* C33: within the expansion of one top-level row a reference key is
\* expanded at most once: an output row holds at most one expanded reference
\* per key, a key is marked processed on the step that starts its expansion,
\* and a reference whose key is marked is returned as null, so that its
\* place keeps the plain reference, without a request, a cache write or a
\* count.
C33_ExpandedOncePerRow ==
  /\ [](\A i \in 1..Len(expandedRows) : \A key \in AllKeys :
          Expansions(expandedRows[i].values, key) <= 1)
  /\ [][(pc = "expand" /\ stack # << >> /\ fetching = << >> /\ AtRef(Top)) =>
         LET key == <<CurRef(Top).tableId, CurRef(Top).rowId>>
             place == stack'[Len(stack)]
         IN /\ Len(stack') > Len(stack) =>
                 key \notin processedRefs /\ key \in processedRefs'
            /\ key \in processedRefs =>
                 /\ ReturnedNull
                 /\ IF CurValue(Top).kind = "list"
                    THEN place.items = Append(Top.items, CurRef(Top))
                    ELSE place.ev[Top.ci] = CurRef(Top)
                 /\ reqLog' = reqLog
                 /\ requestCount' = requestCount
                 /\ cache' = cache /\ tableCache' = tableCache
                 /\ processedRefs' = processedRefs]_vars

\* no fetch failed, and an output row holds the expansion of b1 once and, in
\* another entry, a plain reference to b1
C33_LaterOccurrencePlain ==
  \E i \in 1..Len(expandedRows) :
    /\ Expansions(expandedRows[i].values, <<"t2", "b1">>) = 1
    /\ failures = 0
    /\ \E c \in 1..Len(expandedRows[i].values.cols) :
         LET v == expandedRows[i].values.cols[c]
         IN \/ v = Ref("t2", "b1")
            \/ v.kind = "list" /\ \E j \in 1..Len(v.items) : v.items[j] = Ref("t2", "b1")

\* expandSingleReference is at its reference: it has not yet started
AtResolve ==
  /\ pc = "expand"
  /\ stack # << >>
  /\ fetching = << >>
  /\ AtRef(Top)

\* the step starts a table fetch
StartsFetch == fetching = << >> /\ fetching' # << >>

\* the key has an answer in the session: its table is cached or the
\* row-level cache has an entry for it
Answered(key, tc, c) == key[1] \in DOMAIN tc \/ key \in DOMAIN c

\* C34: in one expandLookups call a reference key triggers at most one
\* table fetch.  A fetch is started only for a key without an answer; every
\* return of expandSingleReference, with a row or with null, leaves the key
\* answered; answers are never taken back during the call; and a resolve of
\* an answered key adds no request.  So the table fetches started never exceed
\* the keys met: each fetch that has ended left its own entry in the
\* row-level cache.
C34_OneAttemptPerKey ==
  /\ [](pc = "expand" =>
          /\ requestCount <= Cardinality(DOMAIN cache) + Len(fetching)
          /\ \A key \in processedRefs : Answered(key, tableCache, cache))
  /\ [][(pc = "expand" /\ pc' = "expand") =>
         /\ \A key \in AllKeys :
              Answered(key, tableCache, cache) => Answered(key, tableCache', cache')
         /\ (AtResolve /\ StartsFetch) =>
              ~Answered(RefKey(CurRef(Top)), tableCache, cache)
         /\ (AtResolve /\ Answered(RefKey(CurRef(Top)), tableCache, cache)) =>
              /\ reqLog' = reqLog
              /\ requestCount' = requestCount
              /\ fetching' = << >>
         /\ (AtResolve /\ ~StartsFetch) =>
              Answered(RefKey(CurRef(Top)), tableCache', cache')
         /\ (fetching # << >> /\ fetching' = << >>) =>
              /\ RefKey(CurRef(Top)) \in DOMAIN cache'
              /\ RefKey(CurRef(Top)) \notin DOMAIN cache]_vars

\* the fetch made for b1 failed, the table is still not cached, and b1 is
\* about to be resolved again
C34_SecondResolveAfterFailure ==
  /\ AtResolve
  /\ CurRef(Top) = Ref("t2", "b1")
  /\ <<"t2", "b1">> \in DOMAIN cache
  /\ "t2" \notin DOMAIN tableCache
  /\ requestCount = 1

\* the row call j of the stack was handed: the top-level row of the for loop
\* of expandLookups, or the row the table cache holds for the reference the
\* calling frame is at
HandedRow(j) ==
  IF j = 1 THEN rows[ri]
  ELSE tableCache[CurRef(stack[j - 1]).tableId][CurRef(stack[j - 1]).rowId]

\* C35: expansion changes neither its input rows nor the rows of the table
\* cache: during expandLookups the input rows stay the items of the rows
\* request, every row of the table cache is the row as fetched, with no
\* expanded reference in it, a cached table is never written again, and the
\* row every call of expandRowLookups works on is still the row it was
\* handed, so that each expansion of a cached row starts from its unexpanded
\* form.
C35_InputsNotMutated ==
  /\ [](pc = "expand" =>
          /\ rows = QueryResult(server, qi)
          /\ \A t \in DOMAIN tableCache : \A r \in DOMAIN tableCache[t] :
               /\ tableCache[t][r] = LatestRow(t, r)
               /\ NestDepth(tableCache[t][r].values) = 0
          /\ \A j \in 1..Len(stack) :
               /\ stack[j].row = HandedRow(j)
               /\ NestDepth(stack[j].row.values) = 0)
  /\ [][(pc = "expand" /\ pc' = "expand") =>
         /\ rows' = rows
         /\ \A t \in DOMAIN tableCache :
              t \in DOMAIN tableCache' /\ tableCache'[t] = tableCache[t]]_vars

\* two output rows hold b1 expanded with an expansion inside it, and the row
\* of b1 in the table cache still holds the plain reference
C35_CachedRowExpandedTwice ==
  /\ pc = "expand"
  /\ Len(expandedRows) = 2
  /\ \A i \in 1..2 :
       /\ expandedRows[i].values.kind = "map"
       /\ \E c \in 1..Len(expandedRows[i].values.cols) :
         LET v == expandedRows[i].values.cols[c]
         IN /\ IsExpanded(v)
            /\ RefKey(v) = <<"t2", "b1">>
            /\ NestDepth(v.values.values) >= 1
  /\ "t2" \in DOMAIN tableCache
  /\ NestDepth(tableCache["t2"]["b1"].values) = 0
  /\ DirectRefs(tableCache["t2"]["b1"].values) # {}

\* every expanded reference in the value, at any nesting, carries the id it
\* names and the values of the row its table holds under that id, references
\* inside them expanded or not
RECURSIVE EmbedsTableRows(_)
EmbedsTableRows(v) ==
  CASE v.kind = "ref" ->
         IsExpanded(v) =>
           /\ v.values.id = v.rowId
           /\ v.rowId \in ServerIds(v.tableId)
           /\ Strip(v.values.values) = LatestRow(v.tableId, v.rowId).values
           /\ EmbedsTableRows(v.values.values)
    [] v.kind = "list" -> \A i \in 1..Len(v.items) : EmbedsTableRows(v.items[i])
    [] v.kind = "map" -> \A i \in 1..Len(v.cols) : EmbedsTableRows(v.cols[i])
    [] OTHER -> TRUE

\* C36: every expanded reference in an output row of expandLookups has
\* values.id equal to its rowId, and its embedded values are those of the
\* row the fetched table holds under that rowId (the row of the last page
\* that has the id), with the references in them expanded or left plain.
C36_EmbeddedRowIsTableRow ==
  \A i \in 1..Len(expandedRows) : EmbedsTableRows(expandedRows[i].values)

\* table t2 came with two rows of id b1, and an output row embeds, under
\* the reference to b1, the values of the later one
C36_EmbedsLaterCopy ==
  /\ "b1old" \in DOMAIN server
  /\ server["b1old"].values # server["b1"].values
  /\ \E i \in 1..Len(expandedRows) :
       /\ expandedRows[i].values.kind = "map"
       /\ LET v == expandedRows[i].values.cols[1]
          IN /\ IsExpanded(v)
             /\ RefKey(v) = <<"t2", "b1">>
             /\ v.values.id = "b1"
             /\ Strip(v.values.values) = server["b1"].values

\* ------------------------------- a column's cell against the column's schema

\* safeParse of a Zod type on a value: whether the value is accepted.  The
\* tagged objects carry the fields their schema requires.
RECURSIVE Accepts(_, _)
Accepts(t, v) ==
  CASE t.zod = "number" -> v.kind = "num" /\ v # NaN
    [] t.zod = "boolean" -> v.kind = "bool"
    [] t.zod = "null" -> v.kind = "null"
    [] t.zod = "string" -> v.kind = "str"
    [] t.zod = "any" -> TRUE
    [] t.zod = "never" -> FALSE
    [] t.zod = "webPage" -> v.kind = "webpage"
    [] t.zod = "imageObject" -> v.kind = "image"
    [] t.zod = "person" -> v.kind = "person"
    [] t.zod = "rowReference" -> v.kind = "ref"
    [] t.zod = "array" ->
         v.kind = "list" /\ \A i \in 1..Len(v.items) : Accepts(t.of, v.items[i])
    [] t.zod = "union" -> \E i \in 1..Len(t.of) : Accepts(t.of[i], v)

\* a column of the columns response and one cell of it: columnTypes holds the
\* column's format.type, the schema is built from its format and formula
ColumnInit ==
  /\ \E type \in FormatTypes, isArray \in BOOLEAN, formula \in Formulas :
       /\ zodColumn = [format |-> [type |-> type, isArray |-> isArray],
                       formula |-> formula]
       /\ normTypes = <<type>>
  /\ zodType = Null
  /\ \E v \in {Null, Empty, Num(7), Str(<<"a", "b">>), List(<< >>)} :
       normValues = VMap(<<v>>)
  /\ normOut = normValues
  /\ normPasses = 0
  /\ Unloaded
  /\ CleanIdle
  /\ HelperIdle

ColumnNext == Normalize \/ InferColumn

ColumnSpec == ColumnInit /\ [][ColumnNext]_vars

\* the column types normalizeEmptyToObject has a branch for
NormalizedTypes ==
  {"number", "slider", "currency", "boolean", "checkbox", "link", "person", "image",
   "lookup"}

\* the column's formula has no call of Hyperlink
NoHyperlink ==
  ~(zodColumn.formula.kind = "str" /\ Includes(zodColumn.formula.s, HyperlinkCall))

\* the cell was null or "", has been normalized, and the schema is built
EmptyCellNormalized ==
  /\ normValues.cols[1] \in {Null, Empty}
  /\ normPasses >= 1
  /\ normOut.kind = "map"
  /\ zodType # Null
  /\ zodColumn.format.type \in NormalizedTypes
  /\ NoHyperlink

\* C37: for a column of type number, slider, currency, boolean, checkbox,
\* link, person, image or lookup, with or without isArray and without a
\* Hyperlink formula, the normalized value of a cell that was null or "" is
\* accepted by the Zod type codaFormatToZodType builds for the column.
C37_NormalizedEmptyAccepted ==
  EmptyCellNormalized => Accepts(zodType, normOut.cols[1])

\* ------------------------------------------------- two loads interleaved

\* the variables of the invocation of load that is running: the locals of
\* load, of fetchAndProcessRows and of expandLookups with its context, and
\* the state of the loader object the invocation belongs to.  sameLoader
\* tells whether the two invocations are of one loader object.
ThisLoad ==
  [sameLoader |-> other.sameLoader, maxLookupDepth |-> maxLookupDepth,
   columnTypesCache |-> columnTypesCache, columnsDataCache |-> columnsDataCache,
   pc |-> pc, qi |-> qi, rows |-> rows, ri |-> ri, expandedRows |-> expandedRows,
   processedRefs |-> processedRefs, cache |-> cache, tableCache |-> tableCache,
   requestCount |-> requestCount, stack |-> stack, fetching |-> fetching,
   processedRows |-> processedRows, si |-> si, errorMsg |-> errorMsg,
   sessLog |-> sessLog, failedKeys |-> failedKeys, failedAt |-> failedAt,
   raised |-> raised]

\* a load that has been called and has not run yet
NewLoad(sameLoader, maxDepth) ==
  [sameLoader |-> sameLoader, maxLookupDepth |-> maxDepth,
   columnTypesCache |-> << >>, columnsDataCache |-> Null,
   pc |-> "init", qi |-> 1, rows |-> << >>, ri |-> 1, expandedRows |-> << >>,
   processedRefs |-> {}, cache |-> EmptyMap, tableCache |-> EmptyMap,
   requestCount |-> 0, stack |-> << >>, fetching |-> << >>,
   processedRows |-> << >>, si |-> 1, errorMsg |-> "none",
   sessLog |-> [t \in TableIds |-> 0], failedKeys |-> {}, failedAt |-> {},
   raised |-> {}]

\* Resumed of a context that the two invocations share
ResumedSharedRefs(saved, current) ==
  [saved EXCEPT !.processedRefs = current.processedRefs]

\* expandLookups: "const context: ProcessingContext = {...}" is a local of
\* the call, so an invocation that resumes finds its own visited set, caches
\* and counter as it left them, whatever the other one did meanwhile
Resumed(saved, current) == saved

\* the running invocation is waiting for a network response, has not begun
\* or has ended: the only points at which the event loop runs another task
Yields ==
  \/ pc \in {"init", "columns", "primary", "store", "done", "error"}
  \/ fetching # << >>

\* the event loop goes on with the other invocation of load
Switch ==
  /\ other # NoLoad
  /\ other.pc \in {"init", "columns", "primary", "expand"}
  /\ Yields
  /\ LET next == Resumed(other, ThisLoad)
     IN /\ other' = ThisLoad
        /\ maxLookupDepth' = next.maxLookupDepth
        /\ columnTypesCache' = IF other.sameLoader THEN columnTypesCache
                               ELSE next.columnTypesCache
        /\ columnsDataCache' = IF other.sameLoader THEN columnsDataCache
                               ELSE next.columnsDataCache
        /\ pc' = next.pc
        /\ qi' = next.qi
        /\ rows' = next.rows
        /\ ri' = next.ri
        /\ expandedRows' = next.expandedRows
        /\ processedRefs' = next.processedRefs
        /\ cache' = next.cache
        /\ tableCache' = next.tableCache
        /\ requestCount' = next.requestCount
        /\ stack' = next.stack
        /\ fetching' = next.fetching
        /\ processedRows' = next.processedRows
        /\ si' = next.si
        /\ errorMsg' = next.errorMsg
        /\ sessLog' = next.sessLog
        /\ failedKeys' = next.failedKeys
        /\ failedAt' = next.failedAt
        /\ raised' = next.raised
  /\ UNCHANGED <<server, nQueries, token, docId, tableIdOrName, cleanStrings, spc,
                 schemaResult, store, netLog, failures, reqLog, hookLog, settled,
                 failedReqs, normVars, cleanVars, zodVars, helperVars>>

\* the documents served to the two loads: cycles, a key met twice in a row,
\* a missing row and a row without values are among them
PairWorlds ==
  { w \in Worlds :
      /\ w["a1"].values.cols[1] \in {Ref("t2", "b1"), Ref("t2", "x")}
      /\ w["a1"].values.cols[2] = List(<<Ref("t2", "b1"), Ref("t2", "b2")>>)
      /\ w["a2"].values \in {VMap(<<Ref("t2", "b1"), List(<< >>)>>), Undefined}
      /\ w["b1"].values \in {VMap(<<Ref("t1", "a1"), List(<< >>)>>),
                             VMap(<<Ref("t2", "b2"), List(<< >>)>>)}
      /\ w["b2"].values = VMap(<<Ref("t1", "a1"), List(<< >>)>>) }

\* load has been called twice, on one loader object or on two loaders of
\* the same table, the second with maxLookupDepth 1; neither call has run
PairInit ==
  /\ server \in PairWorlds
  /\ maxLookupDepth \in (MaxDepth - 1)..MaxDepth
  /\ nQueries = 1
  /\ token = TRUE
  /\ docId = TRUE
  /\ tableIdOrName = TRUE
  /\ cleanStrings = TRUE
  /\ pc = "init"
  /\ qi = 1
  /\ columnTypesCache = << >>
  /\ rows = << >>
  /\ ri = 1
  /\ expandedRows = << >>
  /\ processedRefs = {}
  /\ cache = EmptyMap
  /\ tableCache = EmptyMap
  /\ requestCount = 0
  /\ stack = << >>
  /\ fetching = << >>
  /\ processedRows = << >>
  /\ si = 1
  /\ store = EmptyMap
  /\ errorMsg = "none"
  /\ netLog = [t \in TableIds |-> 0]
  /\ sessLog = [t \in TableIds |-> 0]
  /\ failedKeys = {}
  /\ failedAt = {}
  /\ raised = {}
  /\ failures = 0
  /\ columnsDataCache = Null
  /\ spc = "idle"
  /\ schemaResult = "none"
  /\ reqLog = << >>
  /\ hookLog = << >>
  /\ settled = 0
  /\ failedReqs = {}
  /\ PureIdle
  /\ \/ other = NewLoad(TRUE, maxLookupDepth)
     \/ other = NewLoad(FALSE, 1)

\* the two loads up to the return of expandLookups; their requests for
\* columns and rows are answered, their table fetches may fail
PairNext ==
  \/ Switch
  \/ LoadStart
  \/ ColumnsOk
  \/ PrimaryOk
  \/ RowStart
  \/ ExamineValue
  \/ ExpandSingleReference
  \/ FetchPageOk
  \/ FetchPageFail
  \/ ReturnRow
  \/ RowThrows
  \/ ExpandLookupsReturn

PairSpec == PairInit /\ [][PairNext]_vars

\* What one call of expandLookups, run alone and with every fetch
\* succeeding, makes of a row: written as a function of the row, the
\* server's tables and maxDepth.  P is the visited set as it stands; ok is
\* FALSE when the call raises an error (a row without values).
RECURSIVE SoloRow(_, _, _, _), SoloSeq(_, _, _, _, _, _), SoloRef(_, _, _, _)
SoloRef(ref, depth, P, maxDepth) ==
  LET key == <<ref.tableId, ref.rowId>>
  IN IF key \in P \/ ref.rowId \notin ServerIds(ref.tableId)
     THEN [ok |-> TRUE, v |-> ref, P |-> P]
     ELSE LET r == SoloRow(LatestRow(ref.tableId, ref.rowId), depth + 1, P \cup {key}, maxDepth)
          IN IF r.ok
             THEN [ok |-> TRUE,
                   v |-> [kind |-> "ref", tableId |-> ref.tableId, rowId |-> ref.rowId,
                          values |-> [id |-> r.v.id, values |-> r.v.values]],
                   P |-> r.P]
             ELSE r

SoloSeq(seq, i, depth, P, inList, maxDepth) ==
  IF i > Len(seq) THEN [ok |-> TRUE, v |-> << >>, P |-> P]
  ELSE LET here ==
             CASE seq[i].kind = "ref" -> SoloRef(seq[i], depth, P, maxDepth)
               [] seq[i].kind = "list" /\ ~inList ->
                    LET r == SoloSeq(seq[i].items, 1, depth, P, TRUE, maxDepth)
                    IN [ok |-> r.ok, v |-> [kind |-> "list", items |-> r.v], P |-> r.P]
               [] OTHER -> [ok |-> TRUE, v |-> seq[i], P |-> P]
       IN IF ~here.ok THEN here
          ELSE LET rest == SoloSeq(seq, i + 1, depth, here.P, inList, maxDepth)
               IN IF ~rest.ok THEN rest
                  ELSE [ok |-> TRUE, v |-> <<here.v>> \o rest.v, P |-> rest.P]

SoloRow(row, depth, P, maxDepth) ==
  IF maxDepth <= 0 \/ depth >= maxDepth
  THEN [ok |-> TRUE, v |-> row, P |-> P]
  ELSE IF row.values.kind # "map" THEN [ok |-> FALSE, v |-> row, P |-> P]
  ELSE LET r == SoloSeq(row.values.cols, 1, depth, P, FALSE, maxDepth)
       IN IF r.ok
          THEN [ok |-> TRUE,
                v |-> [row EXCEPT !.values = [kind |-> "map", cols |-> r.v]],
                P |-> r.P]
          ELSE [ok |-> FALSE, v |-> row, P |-> P]

\* the output row for a top-level row: the row itself when the call raised
SoloOutput(row, maxDepth) ==
  LET r == SoloRow(row, 0, {}, maxDepth) IN IF r.ok THEN r.v ELSE row

\* the output rows so far of a load none of whose table fetches failed are
\* the rows it outputs when it runs alone
OutputsAsAlone(load) ==
  (load.pc \in {"expand", "store"} /\ load.failedKeys = {}) =>
    \A i \in 1..Len(load.expandedRows) :
      load.expandedRows[i] = SoloOutput(load.rows[i], load.maxLookupDepth)

\* C38: two invocations of load whose steps interleave, on one loader object
\* or on two, share no expansion state: each call of expandLookups has its
\* own visited set, caches and counter, only the running invocation's are
\* written, and the rows a load outputs are those it outputs when it runs
\* alone, whatever the other load visited, cached or failed to fetch
\* meanwhile.
C38_LoadsDoNotInterfere ==
  /\ [](other # NoLoad => OutputsAsAlone(ThisLoad) /\ OutputsAsAlone(other))
  /\ [][other # NoLoad =>
         \/ other' = other
         \/ /\ other' = ThisLoad
            /\ <<processedRefs', cache', tableCache', requestCount'>> =
                 <<other.processedRefs, other.cache, other.tableCache,
                   other.requestCount>>]_vars

\* both loads are in the middle of a row: this one has b1 in its visited set
\* and table t2 cached, the other has an empty visited set, no table cached
\* and a failed fetch behind it, and this one has output a row
C38_BothMidExpansion ==
  /\ other # NoLoad
  /\ pc = "expand" /\ other.pc = "expand"
  /\ stack # << >> /\ other.stack # << >>
  /\ <<"t2", "b1">> \in processedRefs
  /\ "t2" \in DOMAIN tableCache
  /\ other.processedRefs = {}
  /\ other.tableCache = EmptyMap
  /\ other.failedKeys # {}
  /\ failedKeys = {}
  /\ Len(expandedRows) = 1
  /\ NestDepth(expandedRows[1].values) >= 1

\* ----------------------------------------------------- load and the store

\* the ids store.set was called with so far
SetIds == {hookLog[k].id : k \in {k \in DOMAIN hookLog : hookLog[k].op = "set"}}

\* C39: load is not atomic with respect to the store.  The step on which an
\* error leaves load changes nothing in the store, no step removes or undoes
\* an entry, so after a failed load every row that was set is in the store;
\* the store is as it was before the load only when the error came before
\* the first store.set.
C39_StoredRowsStay ==
  /\ [](pc = "error" =>
          /\ SetIds \subseteq DOMAIN store
          /\ store = EmptyMap <=> SetIds = {})
  /\ [][/\ (pc # "error" /\ pc' = "error") => store' = store
        /\ \A id \in DOMAIN store : id \in DOMAIN store']_vars

\* the rows request of the second query failed after the rows of the first
\* were stored: load has raised and the store holds them
C39_FailedAfterStoring ==
  /\ pc = "error"
  /\ errorMsg = "rows"
  /\ qi = 2
  /\ DOMAIN store = {"a1", "a2"}
  /\ Len(hookLog) = 4

=============================================================================
